---------------------------- MODULE Spec2Model ----------------------------
(***************************************************************************)
(* The LCP frame sniffer of src/lcp_sniff.py as a state machine: the       *)
(* serial source, BufferedSerial (buf, _fill, read_raw,                    *)
(* find_and_consume_sync), read_decoded_byte and the decode loop of main.  *)
(***************************************************************************)
EXTENDS Integers, Sequences, FiniteSets, TLC

\* ------------------------------------------------------------ constants
SYNC == <<126, 126>>
ESC == 27
MAX_DATA_LEN == 255
\* the size asked of ser.read by find_and_consume_sync and (as max(256, ..)) by _fill
ReadSize == 256
\* Python's None, as returned by read_raw / read_decoded_byte on a failed read
None == -1
\* 0x7E, the value the header sanity check rejects for to and from
SyncByte == 126

\* ------------------------------------------------------------ bounds
\* longest raw stream of arbitrary bytes the transport delivers
MaxLen == 8

Byte == 0..255
\* the byte values arbitrary streams are drawn from: zero, the escape
\* sentinel and the sync byte
Alphabet == {0, ESC, SyncByte}

Min(a, b) == IF a < b THEN a ELSE b
Max(a, b) == IF a > b THEN a ELSE b

RECURSIVE SeqsUpTo(_, _)
SeqsUpTo(S, n) ==
    IF n = 0 THEN {<<>>}
    ELSE LET prev == SeqsUpTo(S, n - 1)
         IN prev \cup {Append(s, x) : s \in {t \in prev : Len(t) = n - 1}, x \in S}

VARIABLES
    stream,      \* every raw byte the transport delivers during the session
    pos,         \* how many of them ser.read has returned so far
    buf,         \* BufferedSerial.buf
    consumed,    \* history: how many bytes were deleted from the head of buf
    pc,          \* position of main's decode loop
    to_, frm, status, length,   \* header locals of main
    data, v,     \* payload locals of main
    crc0, crc1,  \* trailer locals of main
    s_,          \* main's local s, the dict returned by decode_status
    out,         \* the frames printed so far
    syncResult,  \* history: progress / return value of find_and_consume_sync
    shortRead,   \* history: some read_decoded_byte returned None
    straddled,   \* history: how the last fetch of the sync search met a buffered 0x7E
    straddleAt,  \* history: the stream index of the second 0x7E of that pair
    syncAt,      \* history: the stream offset of the sync marker last consumed
    outAt,       \* history: for each printed frame, the offset of its sync marker
    frames,      \* history: the frames the peer encoded into the stream
    start,       \* history: the stream offset at which the port was opened
    filler,      \* history: the stream's bytes between a bad header and the next frame
    idle,        \* history: where the source has come back empty (see IdleAfterSync)
    written,     \* how many print statements of the record in progress have run
    port,        \* the serial port: "open" until ser.close()
    discarded,   \* history: how many frame attempts main has given up
    cp26,        \* the CP26TuiApp object
    blue,        \* the BleTuiApp object
    gatt,        \* the radio side as bleak drives it: the subscription on each
                 \* characteristic, the commands written, the addresses clients
                 \* were built for, the addresses scans have come back with
    tasks        \* the coroutines started with asyncio.create_task, unfinished

vars == <<stream, pos, buf, consumed, pc, to_, frm, status, length, data, v,
          crc0, crc1, s_, out, syncResult, shortRead, straddled, straddleAt,
          syncAt, outAt, frames, start, filler, idle, written, port,
          discarded, cp26, blue, gatt, tasks>>

\* what the peer sends and where the session starts: fixed during a session
line == <<stream, frames, start, filler>>

\* ------------------------------------------------------------ the BLE applications
\* Python None where the value, when present, is a sequence
Absent == <<>>

\* class BaudRate and class DeviceMode, in definition order
BaudRate == <<"9600", "19200", "38400", "57600", "115200">>
DeviceMode == <<"Peripheral", "Central", "Beacon">>

\* text is a sequence of code points: "CP-26", "000000", "NewDevice"
DefaultName == <<67, 80, 45, 50, 54>>
DefaultPin == <<48, 48, 48, 48, 48, 48>>
NewDevice == <<78, 101, 119, 68, 101, 118, 105, 99, 101>>

\* CP26Config()
CP26Config ==
    [name |-> DefaultName, mode |-> "Peripheral", baud_rate |-> "115200",
     passthrough |-> TRUE, pin |-> DefaultPin]

\* SerialChannel(name=...): a characteristic is named by its UUID, "" is None
SerialChannel == [tx_char |-> "", rx_char |-> "", notifications_enabled |-> FALSE]

\* CP26TuiApp.__init__
Cp26Start ==
    [devices |-> <<>>, selected_device_idx |-> 0,
     client |-> Absent, connected_device |-> Absent,
     characteristics |-> <<>>, selected_char_idx |-> 0,
     config |-> CP26Config, config_menu_idx |-> 0,
     config_editing |-> FALSE, config_edit_value |-> <<>>,
     module_channel |-> SerialChannel, host_channel |-> SerialChannel,
     active_channel |-> "Module",
     at_mode_enabled |-> FALSE,
     current_screen |-> "devices",
     interview_action_menu |-> FALSE, action_menu_idx |-> 0,
     setup_step |-> 0, setup_field_idx |-> 0, setup_editing |-> FALSE,
     setup_edit_value |-> <<>>, setup_name |-> NewDevice, setup_baud |-> "9600"]

\* BleTuiApp.__init__
BlueStart ==
    [devices |-> <<>>, selected_device_idx |-> 0,
     client |-> Absent, connected_device |-> Absent,
     characteristics |-> <<>>, selected_char_idx |-> 0,
     console_char |-> "", notifications_enabled |-> FALSE,
     current_screen |-> "devices"]

\* the characteristics of the peripheral the applications are used with:
\* FFE1 (notify + write) and FFE2 (write) of the DX-BT24 datasheet, and one
\* more notifying characteristic
Chars == <<"0000ffe1", "0000ffe2", "0000fff1">>
CharSet == {Chars[i] : i \in 1..Len(Chars)}

\* nothing subscribed, nothing written, no client built yet
GattStart ==
    [notify |-> [c \in CharSet |-> "none"], written |-> <<>>, clients |-> {},
     advertised |-> {}]

tui == <<cp26, blue, gatt, tasks>>

\* both applications as constructed, the peripheral untouched
TuiStart ==
    /\ cp26 = Cp26Start
    /\ blue = BlueStart
    /\ gatt = GattStart
    /\ tasks = <<>>

\* ------------------------------------------------------------ the source
\* ser.read(n): the chunk sizes the transport may answer with; 0 is a
\* timeout (always possible), and nothing is left after the stream's end
Avail(p, n) == 0..Min(n, Len(stream) - p)

SerRead(p, k) == SubSeq(stream, p + 1, p + k)

\* ------------------------------------------------------------ BufferedSerial
\* ks: the sizes the transport answers the coming source reads with
RECURSIVE Fill(_, _, _, _)
Fill(b, p, n, ks) ==
    IF Len(b) >= n THEN [ok |-> TRUE, buf |-> b, pos |-> p, ks |-> ks]
    ELSE LET want == Max(ReadSize, n - Len(b))
             k == IF ks = <<>> THEN 0 ELSE Min(Head(ks), Min(want, Len(stream) - p))
             chunk == SerRead(p, k)
         IN IF chunk = <<>>
            THEN [ok |-> FALSE, buf |-> b, pos |-> p,
                  ks |-> IF ks = <<>> THEN ks ELSE Tail(ks)]
            ELSE Fill(b \o chunk, p + k, n, Tail(ks))

\* mutant: when the source runs dry, what is buffered is returned
ReadRawShort(b, p, n, ks) ==
    IF n <= 0 THEN [ok |-> TRUE, bytes |-> <<>>, buf |-> b, pos |-> p, ks |-> ks]
    ELSE LET f == Fill(b, p, n, ks)
         IN [ok |-> TRUE, bytes |-> SubSeq(f.buf, 1, Min(n, Len(f.buf))),
             buf |-> SubSeq(f.buf, n + 1, Len(f.buf)), pos |-> f.pos, ks |-> f.ks]

\* read_raw
ReadRaw(b, p, n, ks) ==
    IF n <= 0 THEN [ok |-> TRUE, bytes |-> <<>>, buf |-> b, pos |-> p, ks |-> ks]
    ELSE LET f == Fill(b, p, n, ks)
         IN IF ~f.ok
            THEN [ok |-> FALSE, bytes |-> <<>>, buf |-> f.buf, pos |-> f.pos, ks |-> f.ks]
            ELSE [ok |-> TRUE, bytes |-> SubSeq(f.buf, 1, n),
                  buf |-> SubSeq(f.buf, n + 1, Len(f.buf)), pos |-> f.pos, ks |-> f.ks]

\* mutant: a single 0x7E counts as a match
FindSingle(b) ==
    LET hits == {i \in 1..Len(b) : b[i] = SYNC[1]}
    IN IF hits = {} THEN -1
       ELSE (CHOOSE i \in hits : \A j \in hits : i <= j) - 1

\* mutant: the rightmost match, as bytes.rfind would give
FindLast(b) ==
    LET hits == {i \in 1..(Len(b) - 1) : b[i] = SYNC[1] /\ b[i + 1] = SYNC[2]}
    IN IF hits = {} THEN -1
       ELSE (CHOOSE i \in hits : \A j \in hits : i >= j) - 1

\* bytes(buf).find(SYNC): 0-based index of the leftmost match, -1 for none
Find(b) ==
    LET hits == {i \in 1..(Len(b) - 1) : b[i] = SYNC[1] /\ b[i + 1] = SYNC[2]}
    IN IF hits = {} THEN -1
       ELSE (CHOOSE i \in hits : \A j \in hits : i <= j) - 1

\* ------------------------------------------------------------ read_decoded_byte
\* mutant: the escaped byte is un-stuffed HDLC style, b2 XOR 0x20
ReadDecodedByteXor(b, p, ks) ==
    LET r1 == ReadRaw(b, p, 1, ks)
    IN IF ~r1.ok THEN [val |-> None, buf |-> r1.buf, pos |-> r1.pos]
       ELSE LET x == r1.bytes[1]
            IN IF x = ESC
               THEN LET r2 == ReadRaw(r1.buf, r1.pos, 1, r1.ks)
                        y == r2.bytes[1]
                    IN IF ~r2.ok THEN [val |-> None, buf |-> r2.buf, pos |-> r2.pos]
                       ELSE [val |-> IF (y \div 32) % 2 = 1 THEN y - 32 ELSE y + 32,
                             buf |-> r2.buf, pos |-> r2.pos]
               ELSE [val |-> x, buf |-> r1.buf, pos |-> r1.pos]

\* mutant: the escape sentinel is returned as a byte of its own
ReadDecodedByteNoUnescape(b, p, ks) ==
    LET r1 == ReadRaw(b, p, 1, ks)
    IN IF ~r1.ok THEN [val |-> None, buf |-> r1.buf, pos |-> r1.pos]
       ELSE [val |-> r1.bytes[1], buf |-> r1.buf, pos |-> r1.pos]

\* mutant: a failed second raw read yields zero
ReadDecodedByteZeroOnFail(b, p, ks) ==
    LET r1 == ReadRaw(b, p, 1, ks)
    IN IF ~r1.ok THEN [val |-> None, buf |-> r1.buf, pos |-> r1.pos]
       ELSE LET x == r1.bytes[1]
            IN IF x = ESC
               THEN LET r2 == ReadRaw(r1.buf, r1.pos, 1, r1.ks)
                    IN IF ~r2.ok THEN [val |-> 0, buf |-> r2.buf, pos |-> r2.pos]
                       ELSE [val |-> r2.bytes[1], buf |-> r2.buf, pos |-> r2.pos]
               ELSE [val |-> x, buf |-> r1.buf, pos |-> r1.pos]

ReadDecodedByte(b, p, ks) ==
    LET r1 == ReadRaw(b, p, 1, ks)
    IN IF ~r1.ok THEN [val |-> None, buf |-> r1.buf, pos |-> r1.pos]
       ELSE LET x == r1.bytes[1]
            IN IF x = ESC
               THEN LET r2 == ReadRaw(r1.buf, r1.pos, 1, r1.ks)
                    IN IF ~r2.ok THEN [val |-> None, buf |-> r2.buf, pos |-> r2.pos]
                       ELSE [val |-> r2.bytes[1], buf |-> r2.buf, pos |-> r2.pos]
               ELSE [val |-> x, buf |-> r1.buf, pos |-> r1.pos]

\* the transport's answers that one read_decoded_byte call can observe: the
\* source is asked only when _fill finds the buffer short
Schedules(b, p) ==
    UNION { LET r1 == ReadRaw(b, p, 1, <<k1>>)
            IN { <<k1, k2>> :
                 k2 \in IF r1.ok /\ r1.bytes[1] = ESC /\ Len(r1.buf) < 1
                        THEN Avail(r1.pos, ReadSize) ELSE {0} }
          : k1 \in IF Len(b) < 1 THEN Avail(p, ReadSize) ELSE {0} }

\* ------------------------------------------------------------ the wire format
\* byte stuffing as the peer applies it: 0x1B before every 0x1B and 0x7E
\* (computed by halves, so that a 255-byte payload does not nest 255 deep)
RECURSIVE Escape(_)
Escape(s) ==
    IF s = <<>> THEN <<>>
    ELSE IF Len(s) = 1
         THEN (IF s[1] = ESC \/ s[1] = SyncByte THEN <<ESC, s[1]>> ELSE <<s[1]>>)
         ELSE LET h == Len(s) \div 2
              IN Escape(SubSeq(s, 1, h)) \o Escape(SubSeq(s, h + 1, Len(s)))

\* sync marker, then header, payload and CRC, stuffed
Encode(f) ==
    SYNC \o Escape(<<f.to, f.from, f.status, f.length>> \o f.data \o f.crc)

RECURSIVE EncodeAll(_)
EncodeAll(fs) == IF fs = <<>> THEN <<>> ELSE Encode(Head(fs)) \o EncodeAll(Tail(fs))

\* the offset in EncodeAll(fs) of the sync marker of frame i
FrameStart(fs, i) == Len(EncodeAll(SubSeq(fs, 1, i - 1)))

\* the offset at which the encoded frames begin in the stream: the marker
\* of the valid frame of a desync stream
ValidAt == Len(stream) - Len(EncodeAll(frames))

\* history of empty source reads.  "before": one happened when exactly the
\* bytes in front of the encoded frames had been delivered (and, in the
\* sync search, no 0x7E was pending at the end of the buffer); "inside":
\* a read_decoded_byte call failed when the encoded frames were delivered
\* in part
IdleAfterSync(b, p) ==
    IF idle = "none" /\ p = ValidAt /\ (b = <<>> \/ b[Len(b)] # SYNC[1])
    THEN "before" ELSE idle

IdleAfterByte(r) ==
    IF r.val # None THEN idle
    ELSE IF ValidAt < r.pos /\ r.pos < Len(stream) THEN "inside"
    ELSE IF idle = "none" /\ r.pos = ValidAt THEN "before"
    ELSE idle

\* ------------------------------------------------------------ decode_status
\* bit k of a byte: 1 when `x & (1 << k)` is non-zero
Bit(x, k) == (x \div (2 ^ k)) % 2

\* main's s before the first call of decode_status
NoStatus == [raw |-> None]

\* the dict literal of lines 64-69
StatusBase(st) ==
    [raw |-> st,
     message_type |-> IF Bit(st, 7) = 1 THEN "response" ELSE "command",
     message_identifier |-> Bit(st, 0),
     synchronization |-> (Bit(st, 1) = 1)]

\* mutant: check_request and abort_request read each other's bit
CommandFieldsSwapped(st) ==
    [check_request |-> (Bit(st, 3) = 1),
     abort_request |-> (Bit(st, 2) = 1),
     reserved_bit4 |-> (Bit(st, 4) = 1),
     reserved_bit5 |-> (Bit(st, 5) = 1),
     reserved_bit6 |-> (Bit(st, 6) = 1)]

\* d.update of lines 72-78
CommandFields(st) ==
    [check_request |-> (Bit(st, 2) = 1),
     abort_request |-> (Bit(st, 3) = 1),
     reserved_bit4 |-> (Bit(st, 4) = 1),
     reserved_bit5 |-> (Bit(st, 5) = 1),
     reserved_bit6 |-> (Bit(st, 6) = 1)]

\* mutant: the command fields are present too, defaulted to False
ResponseFieldsWithDefaults(st) ==
    [busy |-> (Bit(st, 2) = 1),
     request_aborted |-> (Bit(st, 3) = 1),
     no_request_active |-> (Bit(st, 4) = 1),
     buffer_overrun |-> (Bit(st, 5) = 1),
     not_supported |-> (Bit(st, 6) = 1),
     check_request |-> FALSE,
     abort_request |-> FALSE]

\* d.update of lines 80-86
ResponseFields(st) ==
    [busy |-> (Bit(st, 2) = 1),
     request_aborted |-> (Bit(st, 3) = 1),
     no_request_active |-> (Bit(st, 4) = 1),
     buffer_overrun |-> (Bit(st, 5) = 1),
     not_supported |-> (Bit(st, 6) = 1)]

\* mutant: the identifier is reported for commands only
DecodeStatusIdForCommands(st) ==
    IF Bit(st, 7) = 0
    THEN StatusBase(st) @@ CommandFields(st)
    ELSE [StatusBase(st) EXCEPT !.message_identifier = 0] @@ ResponseFields(st)

\* mutant: the dict is kept between calls and the identifier toggles when
\* the same byte is decoded again
DecodeStatusKeepsState(st) ==
    LET d == IF Bit(st, 7) = 0
             THEN StatusBase(st) @@ CommandFields(st)
             ELSE StatusBase(st) @@ ResponseFields(st)
    IN IF s_.raw = st
       THEN [d EXCEPT !.message_identifier = 1 - s_.message_identifier]
       ELSE d

DecodeStatus(st) ==
    IF Bit(st, 7) = 0
    THEN StatusBase(st) @@ CommandFields(st)
    ELSE StatusBase(st) @@ ResponseFields(st)

\* ------------------------------------------------------------ main: the decode loop
\* mutant: the test of `to` is missing
HeaderRejectedIgnoresTo(t, f, l) == l > MAX_DATA_LEN \/ f = SyncByte

\* mutant: a length with the top bit set is taken for a desync
HeaderRejectedLongPayload(t, f, l) == l > 127 \/ t = SyncByte \/ f = SyncByte

\* the sanity test of the header, main line 137 (True: the header is rejected)
HeaderRejected(t, f, l) == l > MAX_DATA_LEN \/ t = SyncByte \/ f = SyncByte

Frame(t, f, s, l, d, c0, c1) ==
    [to |-> t, from |-> f, status |-> s, length |-> l, data |-> d, crc |-> <<c0, c1>>]

\* mutant: the chunk replaces the buffer
ExtendDropsTail(b, chunk) == chunk

\* mutant: the chunk goes in front of what is buffered
ExtendAtHead(b, chunk) == chunk \o b

\* self.buf.extend(chunk)
Extend(b, chunk) == b \o chunk

\* mutant: the marker itself is left in the buffer
ConsumeThroughKeepsSync(b, idx) == SubSeq(b, idx + 1, Len(b))

\* mutant: one byte too many is deleted
ConsumeThroughOffByOne(b, idx) == SubSeq(b, idx + Len(SYNC) + 2, Len(b))

\* del self.buf[: idx + len(SYNC)]
ConsumeThrough(b, idx) == SubSeq(b, idx + Len(SYNC) + 1, Len(b))

\* mutant: an empty read makes the search return True
FindAndConsumeSyncTrueOnEmpty ==
    /\ pc = "sync"
    /\ LET idx == Find(buf)
       IN IF idx # -1
          THEN /\ buf' = ConsumeThrough(buf, idx)
               /\ consumed' = consumed + Len(buf) - Len(buf')
               /\ syncAt' = consumed + idx
               /\ syncResult' = "found"
               /\ pc' = "to"
               /\ UNCHANGED <<pos, straddled, straddleAt, idle>>
          ELSE \E k \in Avail(pos, ReadSize) :
               LET chunk == SerRead(pos, k)
               IN IF chunk = <<>>
                  THEN /\ syncResult' = "found"
                       /\ pc' = "to"
                       /\ straddled' = "no"
                       /\ straddleAt' = 0
                       /\ idle' = IdleAfterSync(buf, pos)
                       /\ UNCHANGED <<buf, pos, consumed, syncAt>>
                  ELSE /\ buf' = Extend(buf, chunk)
                       /\ pos' = pos + k
                       /\ syncResult' = "searching"
                       /\ straddled' =
                            IF buf # <<>> /\ buf[Len(buf)] = SYNC[1] /\ chunk[1] = SYNC[2]
                            THEN (IF syncResult = "exhausted" THEN "afterEmpty" ELSE "direct")
                            ELSE "no"
                       /\ straddleAt' =
                            IF buf # <<>> /\ buf[Len(buf)] = SYNC[1] /\ chunk[1] = SYNC[2]
                            THEN pos + 1 ELSE 0
                       /\ UNCHANGED <<consumed, pc, syncAt, idle>>
    /\ UNCHANGED <<line, to_, frm, status, length, data, v, crc0, crc1, s_, out,
                   shortRead, outAt, written, port, discarded, tui>>

\* mutant: an empty read does not end the search loop
FindAndConsumeSyncSpinsOnEmpty ==
    /\ pc = "sync"
    /\ LET idx == Find(buf)
       IN IF idx # -1
          THEN /\ buf' = ConsumeThrough(buf, idx)
               /\ consumed' = consumed + Len(buf) - Len(buf')
               /\ syncAt' = consumed + idx
               /\ syncResult' = "found"
               /\ pc' = "to"
               /\ UNCHANGED <<pos, straddled, straddleAt, idle>>
          ELSE \E k \in Avail(pos, ReadSize) :
               LET chunk == SerRead(pos, k)
               IN IF chunk = <<>>
                  THEN /\ syncResult' = "searching"
                       /\ straddled' = "no"
                       /\ straddleAt' = 0
                       /\ idle' = IdleAfterSync(buf, pos)
                       /\ UNCHANGED <<buf, pos, consumed, pc, syncAt>>
                  ELSE /\ buf' = Extend(buf, chunk)
                       /\ pos' = pos + k
                       /\ syncResult' = "searching"
                       /\ straddled' =
                            IF buf # <<>> /\ buf[Len(buf)] = SYNC[1] /\ chunk[1] = SYNC[2]
                            THEN (IF syncResult = "exhausted" THEN "afterEmpty" ELSE "direct")
                            ELSE "no"
                       /\ straddleAt' =
                            IF buf # <<>> /\ buf[Len(buf)] = SYNC[1] /\ chunk[1] = SYNC[2]
                            THEN pos + 1 ELSE 0
                       /\ UNCHANGED <<consumed, pc, syncAt, idle>>
    /\ UNCHANGED <<line, to_, frm, status, length, data, v, crc0, crc1, s_, out,
                   shortRead, outAt, written, port, discarded, tui>>

\* mutant: a fetched chunk that holds no marker of its own replaces the buffer
FindAndConsumeSyncKeepsLastChunk ==
    /\ pc = "sync"
    /\ LET idx == Find(buf)
       IN IF idx # -1
          THEN /\ buf' = ConsumeThrough(buf, idx)
               /\ consumed' = consumed + Len(buf) - Len(buf')
               /\ syncAt' = consumed + idx
               /\ syncResult' = "found"
               /\ pc' = "to"
               /\ UNCHANGED <<pos, straddled, straddleAt, idle>>
          ELSE \E k \in Avail(pos, ReadSize) :
               LET chunk == SerRead(pos, k)
               IN IF chunk = <<>>
                  THEN /\ syncResult' = "exhausted"
                       /\ straddled' = "no"
                       /\ straddleAt' = 0
                       /\ idle' = IdleAfterSync(buf, pos)
                       /\ UNCHANGED <<buf, pos, consumed, pc, syncAt>>
                  ELSE /\ buf' = IF Find(chunk) = -1 THEN chunk ELSE Extend(buf, chunk)
                       /\ consumed' = IF Find(chunk) = -1 THEN consumed + Len(buf)
                                      ELSE consumed
                       /\ pos' = pos + k
                       /\ syncResult' = "searching"
                       /\ straddled' = "no"
                       /\ straddleAt' = 0
                       /\ UNCHANGED <<pc, syncAt, idle>>
    /\ UNCHANGED <<line, to_, frm, status, length, data, v, crc0, crc1, s_, out,
                   shortRead, outAt, written, port, discarded, tui>>

\* mutant: a search that found nothing keeps only the last byte fetched
FindAndConsumeSyncTrims ==
    /\ pc = "sync"
    /\ LET idx == Find(buf)
       IN IF idx # -1
          THEN /\ buf' = ConsumeThrough(buf, idx)
               /\ consumed' = consumed + Len(buf) - Len(buf')
               /\ syncAt' = consumed + idx
               /\ syncResult' = "found"
               /\ pc' = "to"
               /\ UNCHANGED <<pos, straddled, straddleAt, idle>>
          ELSE \E k \in Avail(pos, ReadSize) :
               LET chunk == SerRead(pos, k)
               IN IF chunk = <<>>
                  THEN /\ syncResult' = "exhausted"
                       /\ straddled' = "no"
                       /\ straddleAt' = 0
                       /\ idle' = IdleAfterSync(buf, pos)
                       /\ UNCHANGED <<buf, pos, consumed, pc, syncAt>>
                  ELSE /\ buf' = LET all == Extend(buf, chunk)
                                 IN IF Find(all) = -1 THEN SubSeq(all, Len(all), Len(all))
                                    ELSE all
                       /\ consumed' = consumed + Len(buf) + k - Len(buf')
                       /\ pos' = pos + k
                       /\ syncResult' = "searching"
                       /\ straddled' =
                            IF buf # <<>> /\ buf[Len(buf)] = SYNC[1] /\ chunk[1] = SYNC[2]
                            THEN (IF syncResult = "exhausted" THEN "afterEmpty" ELSE "direct")
                            ELSE "no"
                       /\ straddleAt' =
                            IF buf # <<>> /\ buf[Len(buf)] = SYNC[1] /\ chunk[1] = SYNC[2]
                            THEN pos + 1 ELSE 0
                       /\ UNCHANGED <<pc, syncAt, idle>>
    /\ UNCHANGED <<line, to_, frm, status, length, data, v, crc0, crc1, s_, out,
                   shortRead, outAt, written, port, discarded, tui>>

\* one iteration of the loop of find_and_consume_sync; a False return makes
\* main `continue`, which calls it again
FindAndConsumeSync ==
    /\ pc = "sync"
    /\ LET idx == Find(buf)
       IN IF idx # -1
          THEN /\ buf' = ConsumeThrough(buf, idx)
               /\ consumed' = consumed + Len(buf) - Len(buf')
               /\ syncAt' = consumed + idx
               /\ syncResult' = "found"
               /\ pc' = "to"
               /\ UNCHANGED <<pos, straddled, straddleAt, idle>>
          ELSE \E k \in Avail(pos, ReadSize) :
               LET chunk == SerRead(pos, k)
               IN IF chunk = <<>>
                  THEN /\ syncResult' = "exhausted"
                       /\ straddled' = "no"
                       /\ straddleAt' = 0
                       /\ idle' = IdleAfterSync(buf, pos)
                       /\ UNCHANGED <<buf, pos, consumed, pc, syncAt>>
                  ELSE /\ buf' = Extend(buf, chunk)
                       /\ pos' = pos + k
                       /\ syncResult' = "searching"
                       /\ straddled' =
                            IF buf # <<>> /\ buf[Len(buf)] = SYNC[1] /\ chunk[1] = SYNC[2]
                            THEN (IF syncResult = "exhausted" THEN "afterEmpty" ELSE "direct")
                            ELSE "no"
                       /\ straddleAt' =
                            IF buf # <<>> /\ buf[Len(buf)] = SYNC[1] /\ chunk[1] = SYNC[2]
                            THEN pos + 1 ELSE 0
                       /\ UNCHANGED <<consumed, pc, syncAt, idle>>
    /\ UNCHANGED <<line, to_, frm, status, length, data, v, crc0, crc1, s_, out,
                   shortRead, outAt, written, port, discarded, tui>>

\* what one read_decoded_byte call of main does to the buffer and the source
DecodedByte(r) ==
    /\ buf' = r.buf
    /\ pos' = r.pos
    /\ consumed' = consumed + Len(buf) + (r.pos - pos) - Len(r.buf)
    /\ shortRead' = (shortRead \/ r.val = None)
    /\ syncResult' = "idle"
    /\ straddled' = "no"
    /\ straddleAt' = 0
    /\ idle' = IdleAfterByte(r)
    /\ UNCHANGED <<line, out, syncAt, outAt, written, port, s_, tui>>

ReadTo ==
    /\ pc = "to"
    /\ \E ks \in Schedules(buf, pos) :
       LET r == ReadDecodedByte(buf, pos, ks)
       IN /\ DecodedByte(r)
          /\ to_' = r.val
    /\ pc' = "frm"
    /\ UNCHANGED <<frm, status, length, data, v, crc0, crc1, discarded>>

ReadFrm ==
    /\ pc = "frm"
    /\ \E ks \in Schedules(buf, pos) :
       LET r == ReadDecodedByte(buf, pos, ks)
       IN /\ DecodedByte(r)
          /\ frm' = r.val
    /\ pc' = "status"
    /\ UNCHANGED <<to_, status, length, data, v, crc0, crc1, discarded>>

ReadStatus ==
    /\ pc = "status"
    /\ \E ks \in Schedules(buf, pos) :
       LET r == ReadDecodedByte(buf, pos, ks)
       IN /\ DecodedByte(r)
          /\ status' = r.val
    /\ pc' = "length"
    /\ UNCHANGED <<to_, frm, length, data, v, crc0, crc1, discarded>>

\* mutant: the data loop is entered for length = 0 too
ReadLengthSkipsEmpty ==
    /\ pc = "length"
    /\ \E ks \in Schedules(buf, pos) :
       LET r == ReadDecodedByte(buf, pos, ks)
       IN /\ DecodedByte(r)
          /\ length' = r.val
          /\ IF None \in {to_, frm, status, r.val}
             THEN pc' = "sync" /\ UNCHANGED data
             ELSE IF HeaderRejected(to_, frm, r.val)
                  THEN pc' = "sync" /\ UNCHANGED data
                  ELSE /\ data' = <<>>
                       /\ pc' = "data"
    /\ discarded' = IF pc' = "sync" THEN discarded + 1 ELSE discarded
    /\ UNCHANGED <<to_, frm, status, v, crc0, crc1>>

\* the fourth header read, the None test and the sanity test
ReadLength ==
    /\ pc = "length"
    /\ \E ks \in Schedules(buf, pos) :
       LET r == ReadDecodedByte(buf, pos, ks)
       IN /\ DecodedByte(r)
          /\ length' = r.val
          /\ IF None \in {to_, frm, status, r.val}
             THEN pc' = "sync" /\ UNCHANGED data
             ELSE IF HeaderRejected(to_, frm, r.val)
                  THEN pc' = "sync" /\ UNCHANGED data
                  ELSE /\ data' = <<>>
                       /\ pc' = IF r.val = 0 THEN "crc0" ELSE "data"
    /\ discarded' = IF pc' = "sync" THEN discarded + 1 ELSE discarded
    /\ UNCHANGED <<to_, frm, status, v, crc0, crc1>>

\* mutant: the loop runs length + 1 times
ReadDataOneMore ==
    /\ pc = "data"
    /\ \E ks \in Schedules(buf, pos) :
       LET r == ReadDecodedByte(buf, pos, ks)
       IN /\ DecodedByte(r)
          /\ v' = r.val
          /\ IF r.val = None
             THEN pc' = "sync" /\ UNCHANGED data
             ELSE /\ data' = Append(data, r.val)
                  /\ pc' = IF Len(data) + 1 = length + 1 THEN "crc0" ELSE "data"
    /\ discarded' = IF pc' = "sync" THEN discarded + 1 ELSE discarded
    /\ UNCHANGED <<to_, frm, status, length, crc0, crc1>>

\* mutant: a second 0x7E in a row among the data starts the frame over
ReadDataRestartsOnSync ==
    /\ pc = "data"
    /\ \E ks \in Schedules(buf, pos) :
       LET r == ReadDecodedByte(buf, pos, ks)
       IN /\ DecodedByte(r)
          /\ v' = r.val
          /\ IF r.val = None
                \/ (r.val = SyncByte /\ data # <<>> /\ data[Len(data)] = SyncByte)
             THEN pc' = "sync" /\ UNCHANGED data
             ELSE /\ data' = Append(data, r.val)
                  /\ pc' = IF Len(data) + 1 = length THEN "crc0" ELSE "data"
    /\ discarded' = IF pc' = "sync" THEN discarded + 1 ELSE discarded
    /\ UNCHANGED <<to_, frm, status, length, crc0, crc1>>

\* one iteration of `for _ in range(length)`
ReadData ==
    /\ pc = "data"
    /\ \E ks \in Schedules(buf, pos) :
       LET r == ReadDecodedByte(buf, pos, ks)
       IN /\ DecodedByte(r)
          /\ v' = r.val
          /\ IF r.val = None
             THEN pc' = "sync" /\ UNCHANGED data
             ELSE /\ data' = Append(data, r.val)
                  /\ pc' = IF Len(data) + 1 = length THEN "crc0" ELSE "data"
    /\ discarded' = IF pc' = "sync" THEN discarded + 1 ELSE discarded
    /\ UNCHANGED <<to_, frm, status, length, crc0, crc1>>

ReadCrc0 ==
    /\ pc = "crc0"
    /\ \E ks \in Schedules(buf, pos) :
       LET r == ReadDecodedByte(buf, pos, ks)
       IN /\ DecodedByte(r)
          /\ crc0' = r.val
    /\ pc' = "crc1"
    /\ UNCHANGED <<to_, frm, status, length, data, v, crc1, discarded>>

\* mutant: a CRC ending in 0x7E is taken for a desync
ReadCrc1RejectsSyncByte ==
    /\ pc = "crc1"
    /\ \E ks \in Schedules(buf, pos) :
       LET r == ReadDecodedByte(buf, pos, ks)
       IN /\ DecodedByte(r)
          /\ crc1' = r.val
          /\ pc' = IF None \in {crc0, r.val} \/ r.val = SyncByte THEN "sync" ELSE "emit"
    /\ discarded' = IF pc' = "sync" THEN discarded + 1 ELSE discarded
    /\ UNCHANGED <<to_, frm, status, length, data, v, crc0>>

ReadCrc1 ==
    /\ pc = "crc1"
    /\ \E ks \in Schedules(buf, pos) :
       LET r == ReadDecodedByte(buf, pos, ks)
       IN /\ DecodedByte(r)
          /\ crc1' = r.val
          /\ pc' = IF None \in {crc0, r.val} THEN "sync" ELSE "emit"
    /\ discarded' = IF pc' = "sync" THEN discarded + 1 ELSE discarded
    /\ UNCHANGED <<to_, frm, status, length, data, v, crc0>>

\* --show-frame-hex, off unless given on the command line
ShowFrameHex == FALSE

\* the print statements that write one record: lines 187-190 and 193, and
\* line 192 with --show-frame-hex
RecordLines == IF ShowFrameHex THEN 6 ELSE 5

\* one print statement of lines 187-193 (behind s = decode_status(status),
\* line 160); `out` holds the records written in full, and the loop starts
\* over behind the last statement
Emit ==
    /\ pc = "emit"
    /\ s_' = DecodeStatus(status)
    /\ IF written + 1 < RecordLines
       THEN /\ written' = written + 1
            /\ UNCHANGED <<out, outAt, pc, syncResult>>
       ELSE /\ written' = 0
            /\ out' = Append(out, Frame(to_, frm, status, length, data, crc0, crc1))
            /\ outAt' = Append(outAt, syncAt)
            /\ pc' = "sync"
            /\ syncResult' = "idle"
    /\ UNCHANGED <<line, pos, buf, consumed, to_, frm, status, length, data, v,
                   crc0, crc1, shortRead, straddled, straddleAt, syncAt, idle, port,
                   discarded, tui>>

Next ==
    \/ FindAndConsumeSync
    \/ ReadTo
    \/ ReadFrm
    \/ ReadStatus
    \/ ReadLength
    \/ ReadData
    \/ ReadCrc0
    \/ ReadCrc1
    \/ Emit

\* the state after `bs = BufferedSerial(ser)`, whatever the transport will deliver
Start ==
    /\ pos = start
    /\ buf = <<>>
    /\ consumed = start
    /\ pc = "sync"
    /\ to_ = None /\ frm = None /\ status = None /\ length = None
    /\ data = <<>> /\ v = None
    /\ crc0 = None /\ crc1 = None
    /\ s_ = NoStatus
    /\ out = <<>>
    /\ syncResult = "idle"
    /\ shortRead = FALSE
    /\ straddled = "no"
    /\ straddleAt = 0
    /\ syncAt = 0
    /\ outAt = <<>>
    /\ idle = "none"
    /\ written = 0
    /\ port = "open"
    /\ discarded = 0

\* any raw bytes on the line
Init ==
    /\ stream \in SeqsUpTo(Alphabet, MaxLen)
    /\ frames = <<>>
    /\ start = 0
    /\ filler = <<>>
    /\ Start
    /\ TuiStart

Spec == Init /\ [][Next]_vars

\* ------------------------------------------------------------ quiescence
\* the byte sequence holds two adjacent 0x7E
HasSync(s) == \E i \in 1..(Len(s) - 1) : s[i] = SyncByte /\ s[i + 1] = SyncByte

\* nothing more can happen: the transport has delivered everything and what
\* is buffered holds no sync marker
Quiescent == pc = "sync" /\ pos = Len(stream) /\ ~HasSync(buf)

\* ------------------------------------------------------------ one encoded frame
\* longest payload of an encoded frame
MaxPayload == 2

\* the values header, payload and CRC bytes of a single encoded frame are drawn from
FieldVals == {1, ESC, SyncByte}

OneFrames ==
    { Frame(t, f, s, Len(d), d, c[1], c[2]) :
        t \in FieldVals, f \in FieldVals, s \in {ESC, 128},
        d \in SeqsUpTo(FieldVals, MaxPayload), c \in {<<1, ESC>>, <<SyncByte, 1>>} }

InitRoundTrip ==
    /\ \E f \in OneFrames : frames = <<f>>
    /\ stream = EncodeAll(frames)
    /\ start = 0
    /\ filler = <<>>
    /\ Start
    /\ TuiStart

SpecRoundTrip == InitRoundTrip /\ [][Next]_vars

\* C1 as claimed: for every header, payload and CRC, the decode loop run on
\* the encoded frame (no read timing out inside it) emits exactly the
\* original frame.  Fails for to = 0x7E and for from = 0x7E.
C1_RoundTripAnyHeader ==
    (Quiescent /\ ~shortRead) => out = frames

\* C1 amended: for every header with to # 0x7E and from # 0x7E, every payload
\* of `length` bytes and every two CRC bytes, decoding the escaped stream
\* with no read timing out inside the frame emits exactly one frame, whose
\* to, from, status, length, data and crc are the originals.
C1_RoundTrip ==
    (frames[1].to # SyncByte /\ frames[1].from # SyncByte /\ ~shortRead)
        => /\ out = <<>> \/ out = frames
           /\ Quiescent => out = frames

C1_Witness ==
    /\ Quiescent /\ ~shortRead
    /\ Len(out) = 1 /\ out = frames
    /\ out[1].to = ESC /\ out[1].length = 2 /\ out[1].data = <<SyncByte, ESC>>
    /\ out[1].crc = <<SyncByte, 1>>

\* ------------------------------------------------------------ arbitrary streams
\* reference decoding of a raw byte sequence: the byte after 0x1B is literal
RECURSIVE Unescape(_)
Unescape(s) ==
    IF s = <<>> THEN <<>>
    ELSE IF Head(s) = ESC
         THEN (IF Len(s) = 1 THEN <<>> ELSE <<s[2]>> \o Unescape(SubSeq(s, 3, Len(s))))
         ELSE <<Head(s)>> \o Unescape(Tail(s))

\* the step is a read_decoded_byte call of main that returns None
ReadFails ==
    \/ pc = "to" /\ to_' = None
    \/ pc = "frm" /\ frm' = None
    \/ pc = "status" /\ status' = None
    \/ pc = "length" /\ length' = None
    \/ pc = "data" /\ v' = None
    \/ pc = "crc0" /\ crc0' = None
    \/ pc = "crc1" /\ crc1' = None

\* the step completes a header that the sanity test rejects
SanityFails ==
    /\ pc = "length" /\ None \notin {to_, frm, status, length'}
    /\ (to_ = SyncByte \/ frm = SyncByte \/ length' > 255)

\* the frame in main's locals is whole: every field was read, the header is
\* sane, and the fields are the decoding of the raw bytes consumed since
\* the sync marker
WholeFrame ==
    /\ None \notin {to_, frm, status, length, crc0, crc1}
    /\ length <= 255 /\ to_ # SyncByte /\ frm # SyncByte
    /\ Len(data) = length
    /\ Unescape(SubSeq(stream, syncAt + Len(SYNC) + 1, consumed))
           = <<to_, frm, status, length>> \o data \o <<crc0, crc1>>

\* C2: a frame is reported only after the four header bytes, exactly
\* `length` data bytes and both CRC bytes were read successfully and the
\* header passed the sanity tests; any failed read and any failed sanity
\* test during header, data or CRC produces no output and the next step is
\* a sync search.  Fails: after a failed read of to, from, status or the
\* first CRC byte main goes on to the next read_decoded_byte call.
C2_AbortsDirectly ==
    [][ /\ out' # out =>
             /\ pc = "emit" /\ WholeFrame
             /\ out' = Append(out, [to |-> to_, from |-> frm, status |-> status,
                                    length |-> length, data |-> data,
                                    crc |-> <<crc0, crc1>>])
        /\ (ReadFails \/ SanityFails) => (pc' = "sync" /\ out' = out)
      ]_vars

\* ------------------------------------------------------------ frames back to back
\* most frames in a stream of well-formed frames
MaxFrames == 2

\* well-formed frames (to and from other than 0x7E), with and without a
\* payload byte that needs stuffing, with and without a CRC ending in 0x7E
FramedFrames ==
    { Frame(1, 2, 128, Len(d), d, c[1], c[2]) :
        d \in {<<>>, <<SyncByte>>}, c \in {<<0, 0>>, <<ESC, SyncByte>>} }

\* the port is opened at any offset of the stream
InitFramed ==
    /\ frames \in SeqsUpTo(FramedFrames, MaxFrames)
    /\ stream = EncodeAll(frames)
    /\ start \in 0..Len(stream)
    /\ filler = <<>>
    /\ Start
    /\ TuiStart

SpecFramed == InitFramed /\ [][Next]_vars

IsPrefix(s, t) == Len(s) <= Len(t) /\ s = SubSeq(t, 1, Len(s))

\* C3: reading a concatenation of well-formed frames from any byte offset,
\* under any chunking and any timeouts, the decoder emits only frames that
\* were decoded at the sync marker of an original frame and equal it.
C3_OnlyOriginalFrames ==
    \A i \in DOMAIN out :
        \E j \in DOMAIN frames :
            outAt[i] = FrameStart(frames, j) /\ out[i] = frames[j]

\* opened inside the first frame, past its sync marker; the second frame
\* was recovered
C3_Witness ==
    /\ Len(frames) = 2
    /\ start > 1 /\ start < FrameStart(frames, 2)
    /\ frames[1].data = <<SyncByte>>
    /\ out = <<frames[2]>> /\ outAt = <<FrameStart(frames, 2)>>

\* C5: a stream that starts with a sync marker and is N well-formed frames
\* back to back, delivered with no empty read inside a frame, makes the
\* decoder emit exactly the N frames, in stream order: what is emitted is
\* always a prefix of the originals and, once the stream is used up, all
\* of them.
C5_AllFramesInOrder ==
    (start = 0 /\ ~shortRead)
        => /\ IsPrefix(out, frames)
           /\ Quiescent => out = frames

C5_Witness ==
    /\ start = 0 /\ ~shortRead /\ Quiescent
    /\ Len(frames) = 2 /\ out = frames
    /\ frames[1].crc[2] = SyncByte /\ frames[2].data = <<SyncByte>>

\* ------------------------------------------------------------ desync recovery
\* most bytes between the bad header and the next sync marker
MaxFiller == 2

\* headers with to = 0x7E as they appear on the line: `to` raw or stuffed,
\* the other three bytes stuffed
BadHeaders ==
    { t \o Escape(<<f, 128, l>>) :
        t \in {<<SyncByte>>, <<ESC, SyncByte>>}, f \in {2, SyncByte}, l \in {0, ESC} }

\* 7E 7E <header with to = 0x7E> <filler> 7E 7E <valid header + body + crc>
InitDesync ==
    /\ \E f \in FramedFrames : frames = <<f>>
    /\ filler \in SeqsUpTo(Alphabet, MaxFiller)
    /\ \E h \in BadHeaders : stream = SYNC \o h \o filler \o EncodeAll(frames)
    /\ start = 0
    /\ Start
    /\ TuiStart

SpecDesync == InitDesync /\ [][Next]_vars

\* C4 as claimed: every stream 7E 7E <header with to = 0x7E> ... 7E 7E
\* <valid frame> (no read timing out inside a frame) yields exactly one
\* frame, the valid one.  Fails when the skipped bytes end in 0x7E or hold
\* 0x7E 0x7E.
C4_DesyncAnyFiller ==
    (Quiescent /\ ~shortRead) => (out = frames /\ outAt = <<ValidAt>>)

\* C4 amended: when the bytes between the bad header and the second sync
\* marker hold no 0x7E 0x7E and do not end in 0x7E, the decoder (no read
\* timing out inside a frame) emits exactly one frame, the valid one.
C4_DesyncRecovery ==
    (~HasSync(filler \o <<SyncByte>>) /\ ~shortRead)
        => /\ out = <<>> \/ (out = frames /\ outAt = <<ValidAt>>)
           /\ Quiescent => out = frames

C4_Witness ==
    /\ Quiescent /\ ~shortRead
    /\ filler = <<SyncByte, ESC>>
    /\ out = frames /\ outAt = <<ValidAt>>
    /\ to_ = 1 /\ data = <<SyncByte>>

\* ------------------------------------------------------------ any input
\* arbitrary bytes, or well-formed frames back to back read from any offset
SpecAny == (Init \/ InitFramed) /\ [][Next]_vars

\* C6: every emitted frame has len(data) = length, 0 <= length <= 255,
\* to # 0x7E, from # 0x7E and a CRC of exactly two bytes, whatever the input
\* stream and its chunking.
C6_FrameInvariant ==
    \A i \in DOMAIN out :
        /\ out[i].length \in 0..255
        /\ Len(out[i].data) = out[i].length
        /\ \A k \in DOMAIN out[i].data : out[i].data[k] \in Byte
        /\ out[i].to \in Byte \ {SyncByte}
        /\ out[i].from \in Byte \ {SyncByte}
        /\ out[i].status \in Byte
        /\ Len(out[i].crc) = 2 /\ out[i].crc[1] \in Byte /\ out[i].crc[2] \in Byte

\* a frame with a stuffed payload was emitted after a read had timed out
C6_Witness ==
    /\ shortRead
    /\ \E i \in DOMAIN out : out[i].length = 1 /\ out[i].data = <<SyncByte>>

\* ------------------------------------------------------------ the sync search
\* the 1-based index in s of the leftmost 0x7E 0x7E
FirstSync(s) ==
    CHOOSE i \in 1..(Len(s) - 1) :
        /\ s[i] = SyncByte /\ s[i + 1] = SyncByte
        /\ \A j \in 1..(i - 1) : ~(s[j] = SyncByte /\ s[j + 1] = SyncByte)

\* what the sync search has to look at: the bytes delivered and not consumed
Window == SubSeq(stream, consumed + 1, pos)

\* C7: while the bytes the source has delivered hold no two adjacent 0x7E,
\* find_and_consume_sync has never returned success (nothing was consumed,
\* the loop is still searching); and it returns False only in a step in
\* which the source read came back empty.
C7_NoSyncNoSuccess ==
    /\ [](~HasSync(SubSeq(stream, 1, pos))
            => (pc = "sync" /\ syncResult # "found" /\ consumed = 0 /\ out = <<>>))
    /\ [][syncResult' = "exhausted" => (pos' = pos /\ buf' = buf)]_vars

C7_Witness ==
    /\ ~HasSync(stream) /\ pos = Len(stream)
    /\ Len(stream) >= 5 /\ stream[1] = SyncByte /\ stream[Len(stream)] = SyncByte
    /\ syncResult = "exhausted" /\ buf = stream

\* C8: once the buffered plus fetched bytes hold 0x7E 0x7E, the search
\* returns success and the buffer is exactly what followed the leftmost
\* occurrence; success is returned only on a match, and failure only when a
\* source read came back empty with no match in the buffer, which is then
\* left as it was.
C8_ConsumeThroughFirstSync ==
    [][ pc = "sync" =>
          /\ HasSync(Window) =>
                /\ pc' = "to" /\ syncResult' = "found" /\ pos' = pos
                /\ consumed' = consumed + FirstSync(Window) + 1
                /\ buf' = SubSeq(stream, consumed' + 1, pos)
          /\ pc' = "to" => HasSync(Window)
          /\ syncResult' = "exhausted" =>
                (~HasSync(Window) /\ pos' = pos /\ buf' = buf /\ buf = Window)
      ]_vars

\* junk, then three 0x7E in a row: the leftmost pair was taken
C8_Witness ==
    /\ syncResult = "found" /\ pc = "to"
    /\ consumed = 3 /\ stream[1] = ESC
    /\ Len(buf) >= 2 /\ buf[1] = SyncByte

\* C9: a sync marker whose first 0x7E ended one fetched chunk and whose
\* second 0x7E begins a later chunk is matched by the next scan, whether or
\* not a call returned False on an empty read in between: the buffer is
\* then exactly what followed that pair.
C9_StraddlingSync ==
    [][ (pc = "sync" /\ straddled # "no") =>
          /\ stream[straddleAt - 1] = SyncByte /\ stream[straddleAt] = SyncByte
          /\ pc' = "to" /\ syncResult' = "found"
          /\ consumed' = straddleAt
          /\ buf' = SubSeq(stream, straddleAt + 1, pos)
      ]_vars

\* the pair was split by an empty read and found by the call after it
C9_Witness ==
    /\ syncResult = "found" /\ straddled = "afterEmpty"
    /\ consumed = straddleAt /\ straddleAt >= 3
    /\ Len(buf) >= 1

\* ------------------------------------------------------------ read_decoded_byte alone
\* raw pairs: 0x1B before every byte value, and every other first byte
UnitStreams ==
    {<<ESC, x>> : x \in Byte} \cup {<<b, y>> : b \in Byte \ {ESC}, y \in {0, ESC}}

\* some of the raw bytes are buffered already, the rest is still to come
InitUnit ==
    /\ stream \in UnitStreams
    /\ frames = <<>> /\ start = 0 /\ filler = <<>>
    /\ pos \in 0..Len(stream)
    /\ buf = SubSeq(stream, 1, pos)
    /\ consumed = 0
    /\ pc = "call"
    /\ to_ = None /\ frm = None /\ status = None /\ length = None
    /\ data = <<>> /\ v = None
    /\ crc0 = None /\ crc1 = None
    /\ s_ = NoStatus
    /\ out = <<>>
    /\ syncResult = "idle"
    /\ shortRead = FALSE
    /\ straddled = "no"
    /\ straddleAt = 0
    /\ syncAt = 0
    /\ outAt = <<>>
    /\ idle = "none"
    /\ written = 0
    /\ port = "open"
    /\ discarded = 0
    /\ TuiStart

\* v = read_decoded_byte(bs)
CallReadDecodedByte ==
    /\ pc = "call"
    /\ \E ks \in Schedules(buf, pos) :
       LET r == ReadDecodedByte(buf, pos, ks)
       IN /\ DecodedByte(r)
          /\ v' = r.val
    /\ pc' = "returned"
    /\ UNCHANGED <<to_, frm, status, length, data, crc0, crc1, discarded>>

NextUnit == CallReadDecodedByte

SpecUnit == InitUnit /\ [][NextUnit]_vars

\* C10: on the raw pair (0x1B, x) read_decoded_byte returns x, for every x
\* in 0..255, and consumes exactly the two raw bytes; on a first raw byte
\* other than 0x1B it returns that byte and consumes exactly one.  It
\* returns None only when the raw byte it needs was not delivered.
C10_UnescapePair ==
    pc = "returned" =>
        /\ v # None =>
              IF stream[1] = ESC
              THEN v = stream[2] /\ consumed = 2 /\ buf = SubSeq(stream, 3, pos)
              ELSE v = stream[1] /\ consumed = 1 /\ buf = SubSeq(stream, 2, pos)
        /\ v = None =>
              \/ pos = 0 /\ consumed = 0
              \/ stream[1] = ESC /\ pos = 1 /\ consumed = 1

C10_Witness ==
    /\ pc = "returned"
    /\ stream = <<ESC, SyncByte>>
    /\ v = SyncByte /\ consumed = 2 /\ buf = <<>>

\* the raw bytes one read_decoded_byte call can look at: the buffer and
\* what the source delivers during the call
Seen == buf \o SubSeq(stream, pos + 1, pos')

\* C11: read_decoded_byte returns None exactly when its first raw read
\* fails (nothing buffered, nothing delivered) or, after a 0x1B, its second
\* raw read fails; a value it returns is the raw byte it consumed last,
\* never a default or zero standing in for a byte that was not read.
C11_NoneOnFailedRead ==
    [][ pc = "call" =>
          /\ v' = None <=> (Seen = <<>> \/ Seen = <<ESC>>)
          /\ v' # None =>
                /\ consumed' \in 1..pos'
                /\ v' = stream[consumed']
                /\ consumed' = IF stream[1] = ESC THEN 2 ELSE 1
          /\ v' = None => consumed' = Len(Seen)
      ]_vars

\* the sentinel was read, the source then timed out: None, not zero
C11_Witness ==
    /\ pc = "returned"
    /\ stream = <<ESC, 0>>
    /\ v = None /\ consumed = 1 /\ pos = 1 /\ buf = <<>>


\* ------------------------------------------------------------ resync after an anomaly
\* a read_decoded_byte call of the frame attempt in progress has returned
\* None and main has not yet tested for it (lines 129-133 and 153-155)
AbortPending ==
    \/ pc = "frm" /\ to_ = None
    \/ pc = "status" /\ None \in {to_, frm}
    \/ pc = "length" /\ None \in {to_, frm, status}
    \/ pc = "crc1" /\ crc0 = None

\* C12: after a rejected header or a failed read (mid-header, mid-data,
\* mid-CRC, mid-escape) nothing is printed for the attempt and nothing more
\* is consumed for it: the next sync search starts at the first raw byte
\* that was not consumed when the anomaly happened, the marker it finds is
\* the leftmost one from there on (never one inside the consumed bytes),
\* and a frame printed later holds only fields decoded after its own
\* marker.  Fails: after a failed read of to, from, status or the first
\* CRC byte main goes on reading, and what those reads consume is lost to
\* the next search.
C12_ResyncAtFailure ==
    [][ /\ (ReadFails \/ SanityFails) =>
              /\ out' = out
              /\ buf' = SubSeq(stream, consumed' + 1, pos')
        /\ AbortPending => (consumed' = consumed /\ out' = out)
        /\ (pc = "sync" /\ pc' = "to") =>
              /\ syncAt' = consumed + FirstSync(Window) - 1
              /\ pos' = pos
        /\ out' # out => WholeFrame
      ]_vars


\* ------------------------------------------------------------ length boundaries
\* a frame with the longest payload; x is its first and its last data byte
LongFrame(x) ==
    Frame(1, 2, 128, MAX_DATA_LEN,
          [i \in 1..MAX_DATA_LEN |-> IF i = 1 \/ i = MAX_DATA_LEN THEN x ELSE 1],
          ESC, 0)

\* raw bytes 7E 7E 01 02 80 00 AA BB
ScenarioA == Frame(1, 2, 128, 0, <<>>, 170, 187)

\* frames at the two ends of the length range, and one in between
BoundaryFrames ==
    {LongFrame(x) : x \in {0, ESC, SyncByte}}
        \cup {ScenarioA, Frame(1, 2, 128, 1, <<SyncByte>>, ESC, SyncByte)}

\* find_and_consume_sync has just returned True on the marker of a frame;
\* any part of what follows the marker (the frame, then the start of the
\* next one) is buffered already, the rest is still to come
InitAttempt ==
    /\ \E f \in BoundaryFrames : frames = <<f>>
    /\ stream = EncodeAll(frames) \o SYNC \o <<1>>
    /\ start = 0
    /\ filler = <<>>
    /\ pos \in Len(SYNC)..Len(stream)
    /\ buf = SubSeq(stream, Len(SYNC) + 1, pos)
    /\ consumed = Len(SYNC)
    /\ pc = "to"
    /\ to_ = None /\ frm = None /\ status = None /\ length = None
    /\ data = <<>> /\ v = None
    /\ crc0 = None /\ crc1 = None
    /\ s_ = NoStatus
    /\ out = <<>>
    /\ syncResult = "found"
    /\ shortRead = FALSE
    /\ straddled = "no"
    /\ straddleAt = 0
    /\ syncAt = 0
    /\ outAt = <<>>
    /\ idle = "none"
    /\ written = 0
    /\ port = "open"
    /\ discarded = 0
    /\ TuiStart

\* one pass of the loop body of main behind the sync search
NextAttempt ==
    \/ ReadTo
    \/ ReadFrm
    \/ ReadStatus
    \/ ReadLength
    \/ ReadData
    \/ ReadCrc0
    \/ ReadCrc1
    \/ Emit

SpecAttempt == InitAttempt /\ [][NextAttempt]_vars

\* the raw bytes consumed since the sync marker last consumed
RawSince == SubSeq(stream, syncAt + Len(SYNC) + 1, consumed)

\* C13: an accepted header is followed by exactly length + 2 decoded bytes
\* consumed: `length` of them as data (none for length = 0, 255 for
\* length = 255), then two as CRC; the raw bytes consumed are at each point
\* exactly the stuffed form of the fields read, and the printed frame holds
\* `length` data bytes.
C13_LengthBoundaries ==
    /\ pc = "data" =>
          /\ length \in 1..MAX_DATA_LEN /\ Len(data) < length
          /\ RawSince = Escape(<<to_, frm, status, length>> \o data)
    /\ pc = "crc0" =>
          /\ length \in 0..MAX_DATA_LEN /\ Len(data) = length
          /\ RawSince = Escape(<<to_, frm, status, length>> \o data)
    /\ pc = "emit" =>
          /\ Len(data) = length
          /\ RawSince = Escape(<<to_, frm, status, length>> \o data \o <<crc0, crc1>>)
    /\ \A i \in DOMAIN out :
          /\ Len(out[i].data) = out[i].length
          /\ out[i].length = 0 => out[i].data = <<>>

\* a 255-byte payload ending in a stuffed 0x7E was printed; the marker of
\* the next frame is the first byte left in the buffer
C13_Witness ==
    /\ pc = "sync" /\ out = frames
    /\ out[1].length = MAX_DATA_LEN /\ Len(out[1].data) = MAX_DATA_LEN
    /\ out[1].data[MAX_DATA_LEN] = SyncByte
    /\ consumed = Len(EncodeAll(frames))
    /\ buf = SYNC \o <<1>>


\* ------------------------------------------------------------ the source yields nothing
\* main's locals of the frame attempt
locals == <<to_, frm, status, length, data, v, crc0, crc1, s_>>

InitIdle ==
    /\ \E f \in FramedFrames : frames = <<f>>
    /\ filler \in SeqsUpTo(Alphabet, MaxFiller)
    /\ stream = filler \o EncodeAll(frames)
    /\ start = 0
    /\ Start
    /\ TuiStart

SpecIdle == InitIdle /\ [][Next]_vars

\* the frame that was delivered last has been printed, decoded at its marker
LastFramePrinted ==
    /\ out # <<>>
    /\ out[Len(out)] = frames[Len(frames)]
    /\ outAt[Len(outAt)] = ValidAt

\* C15: an empty source read is a retry, not an error: a step of the sync
\* search whose read is empty keeps the buffered bytes and leaves main at
\* the search, and a complete well-formed frame that is delivered after an
\* empty read (and without a further empty read splitting it) has been
\* printed once the stream is used up.  Fails when the empty read hits the
\* read of to, from, status or the first CRC byte.
C15_FrameAfterTimeout ==
    [][ /\ (pc = "sync" /\ Find(buf) = -1 /\ pos' = pos) =>
              (buf' = buf /\ pc' = "sync" /\ out' = out)
        /\ (idle' = "before" /\ Quiescent') => LastFramePrinted'
      ]_vars


\* ------------------------------------------------------------ leaving the loop
\* the positions of main inside `while True`
LoopPcs == {"sync", "to", "frm", "status", "length", "data", "crc0", "crc1", "emit"}

\* KeyboardInterrupt is raised somewhere inside the try block
Interrupt ==
    /\ pc \in LoopPcs
    /\ pc' = "except"
    /\ UNCHANGED <<line, pos, buf, consumed, locals, out, syncResult, shortRead,
                   straddled, straddleAt, syncAt, outAt, idle, written, port,
                   discarded, tui>>

\* a source read (or a print) raises: the exception leaves the try block
Fault ==
    /\ pc \in LoopPcs
    /\ pc' = "finally_raise"
    /\ UNCHANGED <<line, pos, buf, consumed, locals, out, syncResult, shortRead,
                   straddled, straddleAt, syncAt, outAt, idle, written, port,
                   discarded, tui>>

\* except KeyboardInterrupt: pass
ExceptPass ==
    /\ pc = "except"
    /\ pc' = "finally_return"
    /\ UNCHANGED <<line, pos, buf, consumed, locals, out, syncResult, shortRead,
                   straddled, straddleAt, syncAt, outAt, idle, written, port,
                   discarded, tui>>

\* mutant: the port is closed in the except clause only
FinallyOnReturnOnly ==
    /\ pc \in {"finally_return", "finally_raise"}
    /\ port' = IF pc = "finally_return" THEN "closed" ELSE port
    /\ pc' = IF pc = "finally_return" THEN "returned" ELSE "raised"
    /\ UNCHANGED <<line, pos, buf, consumed, locals, out, syncResult, shortRead,
                   straddled, straddleAt, syncAt, outAt, idle, written, discarded, tui>>

\* finally: ser.close(); then main returns or the exception goes on
Finally ==
    /\ pc \in {"finally_return", "finally_raise"}
    /\ port' = "closed"
    /\ pc' = IF pc = "finally_return" THEN "returned" ELSE "raised"
    /\ UNCHANGED <<line, pos, buf, consumed, locals, out, syncResult, shortRead,
                   straddled, straddleAt, syncAt, outAt, idle, written, discarded, tui>>

NextSession ==
    \/ Next
    \/ Interrupt
    \/ Fault
    \/ ExceptPass
    \/ Finally

\* a session that can be interrupted and whose source can fail
SpecSession == InitIdle /\ [][NextSession]_vars

\* C16: however the decode loop is left (KeyboardInterrupt, or an exception
\* out of a source read, the decoding or a print), the port is closed by
\* the time main returns or the exception propagates; it stays open while
\* the loop runs.
C16_PortClosedOnExit ==
    /\ pc \in {"returned", "raised"} => port = "closed"
    /\ pc \in LoopPcs => port = "open"

\* an exception left the loop after a frame was printed
C16_Witness ==
    /\ pc = "raised" /\ port = "closed"
    /\ Len(out) = 1 /\ shortRead

\* C17: an interrupt at any point of the loop, the writing of a record
\* included, leaves no record written in part.  Fails: the record is
\* written by separate print statements, and the interrupt can fall
\* between two of them.
C17_NoPartialRecord ==
    pc \in {"except", "finally_return", "returned"} => written = 0


\* ------------------------------------------------------------ decode_status alone
\* main is about to decode some status byte; s is unset or left by an
\* earlier frame
InitStatus ==
    /\ stream = <<>>
    /\ frames = <<>> /\ start = 0 /\ filler = <<>>
    /\ pos = 0
    /\ buf = <<>>
    /\ consumed = 0
    /\ pc = "decode"
    /\ to_ = None /\ frm = None /\ length = None
    /\ status \in Byte
    /\ data = <<>> /\ v = None
    /\ crc0 = None /\ crc1 = None
    /\ s_ \in {NoStatus, StatusBase(0) @@ CommandFields(0),
               StatusBase(255) @@ ResponseFields(255)}
    /\ out = <<>>
    /\ syncResult = "idle"
    /\ shortRead = FALSE
    /\ straddled = "no"
    /\ straddleAt = 0
    /\ syncAt = 0
    /\ outAt = <<>>
    /\ idle = "none"
    /\ written = 0
    /\ port = "open"
    /\ discarded = 0
    /\ TuiStart

\* s = decode_status(status)
CallDecodeStatus ==
    /\ pc = "decode"
    /\ s_' = DecodeStatus(status)
    /\ pc' = "decoded"
    /\ UNCHANGED <<line, pos, buf, consumed, to_, frm, status, length, data, v,
                   crc0, crc1, out, syncResult, shortRead, straddled, straddleAt,
                   syncAt, outAt, idle, written, port, discarded, tui>>

\* decode_status is called once more on the same byte
CallDecodeStatusAgain ==
    /\ pc = "decoded"
    /\ s_' = DecodeStatus(status)
    /\ pc' = "again"
    /\ UNCHANGED <<line, pos, buf, consumed, to_, frm, status, length, data, v,
                   crc0, crc1, out, syncResult, shortRead, straddled, straddleAt,
                   syncAt, outAt, idle, written, port, discarded, tui>>

NextStatus ==
    \/ CallDecodeStatus
    \/ CallDecodeStatusAgain

SpecStatus == InitStatus /\ [][NextStatus]_vars

\* the keys decode_status reports for both directions
CommonKeys == {"raw", "message_type", "message_identifier", "synchronization"}

\* C18: for every status byte, decode_status reports response exactly when
\* bit 7 is set (128 and above) and command otherwise, the identifier as
\* bit 0 (0 or 1), synchronization as bit 1, in both directions, and the
\* byte itself as raw.
C18_CommonFields ==
    pc = "decoded" =>
        /\ CommonKeys \subseteq DOMAIN s_
        /\ s_.raw = status
        /\ s_.message_type = (IF status >= 128 THEN "response" ELSE "command")
        /\ s_.message_type \in {"response", "command"}
        /\ s_.message_identifier = status % 2
        /\ s_.synchronization \in BOOLEAN
        /\ s_.synchronization <=> (status % 4 >= 2)

\* 0x83: a response with identifier 1 and the synchronization flag
C18_Witness ==
    /\ pc = "decoded" /\ status = 131
    /\ s_.raw = 131 /\ s_.message_type = "response"
    /\ s_.message_identifier = 1 /\ s_.synchronization

CommandKeys ==
    {"check_request", "abort_request", "reserved_bit4", "reserved_bit5", "reserved_bit6"}

ResponseKeys ==
    {"busy", "request_aborted", "no_request_active", "buffer_overrun", "not_supported"}

\* C19: for every status byte below 128 (a command) the dict holds, besides
\* the common keys, exactly check_request (bit 2), abort_request (bit 3) and
\* reserved_bit4, reserved_bit5, reserved_bit6 (each its own bit), and no
\* response key at all.
C19_CommandFields ==
    (pc = "decoded" /\ status < 128) =>
        /\ DOMAIN s_ = CommonKeys \cup CommandKeys
        /\ DOMAIN s_ \cap ResponseKeys = {}
        /\ s_.check_request <=> (status % 8 >= 4)
        /\ s_.abort_request <=> (status % 16 >= 8)
        /\ s_.reserved_bit4 <=> (status % 32 >= 16)
        /\ s_.reserved_bit5 <=> (status % 64 >= 32)
        /\ s_.reserved_bit6 <=> (status % 128 >= 64)
        /\ \A k \in CommandKeys : s_[k] \in BOOLEAN

\* 0x54: check_request, reserved bits 4 and 6
C19_Witness ==
    /\ pc = "decoded" /\ status = 84
    /\ s_.message_type = "command"
    /\ s_.check_request /\ ~s_.abort_request
    /\ s_.reserved_bit4 /\ ~s_.reserved_bit5 /\ s_.reserved_bit6

\* C20: for every status byte from 128 up (a response) the dict holds,
\* besides the common keys, exactly busy (bit 2), request_aborted (bit 3),
\* no_request_active (bit 4), buffer_overrun (bit 5) and not_supported
\* (bit 6), and no command key at all.
C20_ResponseFields ==
    (pc = "decoded" /\ status >= 128) =>
        /\ DOMAIN s_ = CommonKeys \cup ResponseKeys
        /\ DOMAIN s_ \cap CommandKeys = {}
        /\ s_.busy <=> (status % 8 >= 4)
        /\ s_.request_aborted <=> (status % 16 >= 8)
        /\ s_.no_request_active <=> (status % 32 >= 16)
        /\ s_.buffer_overrun <=> (status % 64 >= 32)
        /\ s_.not_supported <=> (status % 128 >= 64)
        /\ \A k \in ResponseKeys : s_[k] \in BOOLEAN

\* 0xE8: request_aborted, buffer_overrun and not_supported
C20_Witness ==
    /\ pc = "decoded" /\ status = 232
    /\ s_.message_type = "response"
    /\ ~s_.busy /\ s_.request_aborted /\ ~s_.no_request_active
    /\ s_.buffer_overrun /\ s_.not_supported


CrcEdge == {0, ESC, SyncByte, 255}

\* one header and payload under every CRC that has an edge value in one
\* place and any byte in the other
CrcFrames ==
    { Frame(1, 2, 128, Len(d), d, c[1], c[2]) :
        d \in {<<>>, <<SyncByte>>},
        c \in (Byte \X CrcEdge) \cup (CrcEdge \X Byte) }

\* as InitAttempt, for the frames of CrcFrames
InitCrc ==
    /\ \E f \in CrcFrames : frames = <<f>>
    /\ stream = EncodeAll(frames) \o SYNC \o <<1>>
    /\ start = 0
    /\ filler = <<>>
    /\ pos \in Len(SYNC)..Len(stream)
    /\ buf = SubSeq(stream, Len(SYNC) + 1, pos)
    /\ consumed = Len(SYNC)
    /\ pc = "to"
    /\ to_ = None /\ frm = None /\ status = None /\ length = None
    /\ data = <<>> /\ v = None
    /\ crc0 = None /\ crc1 = None
    /\ s_ = NoStatus
    /\ out = <<>>
    /\ syncResult = "found"
    /\ shortRead = FALSE
    /\ straddled = "no"
    /\ straddleAt = 0
    /\ syncAt = 0
    /\ outAt = <<>>
    /\ idle = "none"
    /\ written = 0
    /\ port = "open"
    /\ discarded = 0
    /\ TuiStart

SpecCrc == InitCrc /\ [][NextAttempt]_vars

\* C22: the two decoded CRC bytes are not checked: with header and payload
\* fixed, the frame is printed whenever no read of the attempt failed,
\* whatever the two CRC bytes are; the printed to, from, status, length and
\* data are those of the frame and its crc is the two bytes as sent, in
\* stream order.
C22_CrcPassedThrough ==
    /\ \A i \in DOMAIN out :
          /\ out[i].crc = frames[1].crc
          /\ out[i].crc = <<crc0, crc1>>
          /\ <<out[i].to, out[i].from, out[i].status, out[i].length, out[i].data>>
                 = <<1, 2, 128, Len(frames[1].data), frames[1].data>>
    /\ pc = "sync" => (IF shortRead THEN out = <<>> ELSE Len(out) = 1)
    /\ (pc = "emit" /\ written = 0) => ~shortRead

\* the CRC 1B 7E behind a stuffed payload byte was printed as sent
C22_Witness ==
    /\ pc = "sync" /\ Len(out) = 1
    /\ out[1].crc = <<ESC, SyncByte>> /\ out[1].data = <<SyncByte>>
    /\ buf = SYNC \o <<1>>


\* ------------------------------------------------------------ termination
\* main keeps running: the interpreter executes the next statement, and a
\* source read comes back when its timeout expires
SpecLive == InitIdle /\ [][Next]_vars /\ WF_vars(Next)

\* the positions of main at a read_decoded_byte call
ReadPcs == {"to", "frm", "status", "length", "data", "crc0", "crc1"}

\* C23: an iteration of the search loop that does not return has read the
\* source and made the buffer strictly longer by what was read; a
\* read_decoded_byte call (one or two read_raw calls) asks the source only
\* for what the buffer lacks and returns in one go; and since the source
\* has finitely many bytes to give before it comes back empty, a search
\* that is looping always comes to a return.
C23_NeverHangs ==
    /\ [][ (pc = "sync" /\ syncResult' = "searching") =>
              /\ pos' > pos /\ Len(buf') > Len(buf)
              /\ buf' = buf \o SubSeq(stream, pos + 1, pos')
         ]_vars
    /\ [][ (pc \in ReadPcs) =>
              /\ pos' >= pos /\ pos' <= Len(stream)
              /\ consumed' - consumed \in 0..2
              /\ Len(buf') + consumed' = Len(buf) + consumed + (pos' - pos)
              /\ (buf # <<>> /\ buf[1] # ESC) => pos' = pos
         ]_vars
    /\ (syncResult = "searching") ~> (syncResult \in {"found", "exhausted"})

\* the marker came in two reads behind two bytes of noise, and the third
\* iteration returned True
C23_Witness ==
    /\ syncResult = "found" /\ straddled = "direct"
    /\ Len(filler) = 2 /\ syncAt = 2 /\ consumed = 4


(***************************************************************************)
(* What main hands to an embedding caller.  The loop leaves an attempt     *)
(* with a bare `continue` (lines 134, 138, 150, 156); main holds no        *)
(* counter, prints nothing for an abandoned attempt, and falls off its end,*)
(* so its result is None.  BufferedSerial carries `ser` and `buf` only.    *)
(***************************************************************************)
MainResult == None

\* C24: the number of frame attempts given up without a record (rejected
\* headers, truncated frames) is exposed to the embedding caller: once an
\* attempt was given up, the value main exposes equals that number.
\* Fails: main counts nothing and exposes nothing.
C24_DiscardCountExposed ==
    discarded > 0 => MainResult = discarded


\* ------------------------------------------------------------ the rest of the program idle
\* the decoder's variables, which no step of the applications touches
sniff == <<stream, pos, buf, consumed, pc, to_, frm, status, length, data, v,
           crc0, crc1, s_, out, syncResult, shortRead, straddled, straddleAt,
           syncAt, outAt, frames, start, filler, idle, written, port,
           discarded>>

\* the decoder constructed on a silent line
SniffStart ==
    /\ stream = <<>>
    /\ frames = <<>>
    /\ start = 0
    /\ filler = <<>>
    /\ Start

\* the state after CP26TuiApp(stdscr)
InitScan ==
    /\ SniffStart
    /\ TuiStart

\* ------------------------------------------------------------ cp26_tui: scan and connect
CP26_MAC_PREFIX == <<"4", "8", ":", "8", "7", ":", "2", "D">>

\* str.upper() on the characters an address is written with
UpperChar(c) ==
    CASE c = "a" -> "A" [] c = "b" -> "B" [] c = "c" -> "C"
      [] c = "d" -> "D" [] c = "e" -> "E" [] c = "f" -> "F"
      [] OTHER -> c

Upper(a) == [i \in 1..Len(a) |-> UpperChar(a[i])]

\* str.startswith
StartsWith(a, p) == Len(a) >= Len(p) /\ SubSeq(a, 1, Len(p)) = p

\* a scan lists every device it found
ListedWhateverAddress(address) == TRUE

\* line 312: the test a found device passes to be listed
Listed(address) == StartsWith(Upper(address), CP26_MAC_PREFIX)

\* addresses a scan can come back with: the vendor's prefix in upper and in
\* lower case, a neighbouring prefix, an address shorter than the prefix,
\* and one that holds the prefix further in
Addresses ==
    { <<"4", "8", ":", "8", "7", ":", "2", "D", ":", "0", "1">>,
      <<"4", "8", ":", "8", "7", ":", "2", "d", ":", "0", "2">>,
      <<"4", "8", ":", "8", "7", ":", "2", "E", ":", "0", "3">>,
      <<"4", "8", ":", "8", "7", ":", "2">>,
      <<"A", "4", ":", "4", "8", ":", "8", "7", ":", "2", "D">> }

\* reported signal strengths; 0 stands for a missing one as well
RssiVals == {-40, 0}

\* what a device advertises as its name: "BT", or nothing when its address
\* does not end in a digit
AdvName(address) ==
    IF address[Len(address)] \in {"1", "2", "3"} THEN <<66, 84>> ELSE <<>>

\* "DX-BT24 Unknown"
UnknownName == <<68, 88, 45, 66, 84, 50, 52, 32, 85, 110, 107, 110, 111, 119, 110>>

Adverts == {[address |-> a, name |-> AdvName(a), rssi |-> r] : a \in Addresses, r \in RssiVals}

\* how many devices one scan finds at most
MaxFound == 2

\* what BleakScanner.discover returns: a dict keyed by address, in its order
Found ==
    {f \in SeqsUpTo(Adverts, MaxFound) :
        \A i, j \in 1..Len(f) : i # j => f[i].address # f[j].address}

\* lines 313-315
DeviceEntry(adv) ==
    [address |-> adv.address,
     name |-> IF adv.name # <<>> THEN adv.name ELSE UnknownName,
     rssi |-> IF adv.rssi # 0 THEN adv.rssi ELSE -100]

\* list.sort(key=rssi, reverse=True) is stable: d goes behind every entry
\* that is at least as strong
InsertByRssi(ds, d) ==
    LET k == Cardinality({i \in 1..Len(ds) : ds[i].rssi >= d.rssi})
    IN SubSeq(ds, 1, k) \o <<d>> \o SubSeq(ds, k + 1, Len(ds))

RECURSIVE SortByRssi(_)
SortByRssi(ds) ==
    IF ds = <<>> THEN <<>>
    ELSE InsertByRssi(SortByRssi(SubSeq(ds, 1, Len(ds) - 1)), ds[Len(ds)])

\* the loop of lines 310-315
RECURSIVE Filtered(_)
Filtered(f) ==
    IF f = <<>> THEN <<>>
    ELSE LET rest == Filtered(SubSeq(f, 1, Len(f) - 1))
             last == f[Len(f)]
         IN IF Listed(last.address) THEN Append(rest, DeviceEntry(last)) ELSE rest

\* scan_devices: the first statement of run, and F1 on the devices screen
ScanDevices ==
    /\ cp26.current_screen = "devices"
    /\ \/ \* discover raises: the list stays empty
          /\ cp26' = [cp26 EXCEPT !.devices = <<>>, !.selected_device_idx = 0]
          /\ UNCHANGED gatt
       \/ \E f \in Found :
             /\ cp26' = [cp26 EXCEPT !.devices = SortByRssi(Filtered(f)),
                                     !.selected_device_idx = 0]
             /\ gatt' = [gatt EXCEPT
                           !.advertised = @ \cup {f[i].address : i \in 1..Len(f)}]
    /\ UNCHANGED <<sniff, blue, tasks>>

\* handle_devices_keys: KEY_UP
DevicesKeyUp ==
    /\ cp26.current_screen = "devices"
    /\ cp26.devices # <<>>
    /\ cp26' = [cp26 EXCEPT !.selected_device_idx = Max(0, @ - 1)]
    /\ UNCHANGED <<sniff, blue, gatt, tasks>>

\* handle_devices_keys: KEY_DOWN
DevicesKeyDown ==
    /\ cp26.current_screen = "devices"
    /\ cp26.devices # <<>>
    /\ cp26' = [cp26 EXCEPT !.selected_device_idx = Min(Len(cp26.devices) - 1, @ + 1)]
    /\ UNCHANGED <<sniff, blue, gatt, tasks>>

\* the properties of the peripheral's characteristics
Properties(c) ==
    CASE c = "0000ffe1" -> {"notify", "write"}
      [] c = "0000ffe2" -> {"write"}
      [] OTHER -> {"notify"}

can_write(c) == "write" \in Properties(c) \/ "write-without-response" \in Properties(c)
can_notify(c) == "notify" \in Properties(c) \/ "indicate" \in Properties(c)

\* the last characteristic of the list whose UUID starts with the prefix, or ""
RECURSIVE LastWith(_, _)
LastWith(cs, prefix) ==
    IF cs = <<>> THEN ""
    ELSE IF cs[Len(cs)] = prefix THEN prefix
    ELSE LastWith(SubSeq(cs, 1, Len(cs) - 1), prefix)

\* _auto_assign_generic: the first writable and the first notifying
\* characteristic; every UUID of Chars matches one of the patterns
RECURSIVE AutoAssignGeneric(_, _)
AutoAssignGeneric(cs, ch) ==
    IF cs = <<>> THEN ch
    ELSE LET c == cs[1]
             withTx == IF can_write(c) /\ ch.tx_char = "" THEN [ch EXCEPT !.tx_char = c] ELSE ch
             withRx == IF can_notify(c) /\ withTx.rx_char = ""
                       THEN [withTx EXCEPT !.rx_char = c] ELSE withTx
         IN AutoAssignGeneric(Tail(cs), withRx)

\* _auto_assign_channels, on the application object
AutoAssign(app) ==
    LET ffe1 == LastWith(app.characteristics, "0000ffe1")
        ffe2 == LastWith(app.characteristics, "0000ffe2")
        m1 == IF ffe1 # "" /\ can_write(ffe1)
              THEN [app.module_channel EXCEPT !.tx_char = ffe1] ELSE app.module_channel
        m2 == IF ffe1 # "" /\ can_notify(ffe1) THEN [m1 EXCEPT !.rx_char = ffe1] ELSE m1
        h == IF ffe2 # "" /\ can_write(ffe2)
             THEN [app.host_channel EXCEPT !.tx_char = ffe2] ELSE app.host_channel
        m3 == IF m2.tx_char = "" /\ m2.rx_char = ""
              THEN AutoAssignGeneric(app.characteristics, m2) ELSE m2
    IN [app EXCEPT !.module_channel = m3, !.host_channel = h]

\* a disconnect that leaves the selected characteristic where it was
DisconnectedKeepsIndex(app) ==
    [app EXCEPT !.client = Absent, !.connected_device = Absent,
                !.characteristics = <<>>,
                !.module_channel = SerialChannel, !.host_channel = SerialChannel,
                !.active_channel = "Module"]

\* the tail of disconnect, lines 383-389
Disconnected(app) ==
    [app EXCEPT !.client = Absent, !.connected_device = Absent,
                !.characteristics = <<>>, !.selected_char_idx = 0,
                !.module_channel = SerialChannel, !.host_channel = SerialChannel,
                !.active_channel = "Module"]

\* the link is gone, and every subscription with it
LinkDown(g) == [g EXCEPT !.notify = [c \in CharSet |-> "none"]]

\* the services a connected peripheral shows: all of Chars, or only the last
Profiles == {Chars, <<Chars[3]>>}

\* names the peripheral's GAP Device Name can read as: "CP-26", "BT"
GapNames == {DefaultName, <<66, 84>>}

\* lines 344-348: the application once connect() has succeeded, after
\* discover_characteristics and read_config
Connected(app, dev, profile, name) ==
    [AutoAssign([app EXCEPT !.characteristics = profile])
        EXCEPT !.connected_device = <<dev>>,
               !.config.name = name,
               !.current_screen = "interview"]

\* connect_selected_device (Enter on the devices screen), with
\* discover_characteristics and read_config
ConnectSelectedDevice ==
    /\ cp26.current_screen = "devices"
    /\ cp26.devices # <<>>
    /\ LET dev == cp26.devices[cp26.selected_device_idx + 1]
           app == [Disconnected(cp26) EXCEPT !.client = dev.address]
       IN /\ gatt' = [LinkDown(gatt) EXCEPT !.clients = @ \cup {dev.address}]
          /\ \/ \* connect() raises, or returns without a connection
                cp26' = [app EXCEPT !.client = Absent]
             \/ \E profile \in Profiles, named \in BOOLEAN, gap \in GapNames :
                   cp26' = Connected(app, dev, profile, IF named THEN gap ELSE dev.name)
    /\ UNCHANGED <<sniff, blue, tasks>>

\* run handles the next key once the handler of the last one has returned,
\* and by then every task created meanwhile has run up to its first await
MainReady ==
    \A i \in 1..Len(tasks) : tasks[i].at = "done" \/ (~tasks[i].fg /\ tasks[i].at # "new")

\* an F9 that disconnects and stays on the screen it was pressed on
KeyF9KeepsScreen ==
    /\ MainReady
    /\ cp26.current_screen \in {"interview", "config"}
    /\ ~cp26.interview_action_menu
    /\ ~cp26.config_editing
    /\ cp26' = Disconnected(cp26)
    /\ gatt' = LinkDown(gatt)
    /\ UNCHANGED <<sniff, blue, tasks>>

\* handle_interview_keys / handle_config_keys: F9
KeyF9 ==
    /\ MainReady
    /\ cp26.current_screen \in {"interview", "config"}
    /\ ~cp26.interview_action_menu
    /\ ~cp26.config_editing
    /\ cp26' = [Disconnected(cp26) EXCEPT !.current_screen = "devices"]
    /\ gatt' = LinkDown(gatt)
    /\ UNCHANGED <<sniff, blue, tasks>>

NextScan ==
    \/ ScanDevices
    \/ DevicesKeyUp
    \/ DevicesKeyDown
    \/ ConnectSelectedDevice
    \/ KeyF9

SpecScan == InitScan /\ [][NextScan]_vars

\* C25: every listed device has an address that starts, in upper case, with
\* 48:87:2D, and no client is ever built for another address.
C25_OnlyPrefixListed ==
    /\ \A i \in 1..Len(cp26.devices) :
          StartsWith(Upper(cp26.devices[i].address), CP26_MAC_PREFIX)
    /\ \A a \in gatt.clients : StartsWith(Upper(a), CP26_MAC_PREFIX)
    /\ cp26.client # Absent => StartsWith(Upper(cp26.client), CP26_MAC_PREFIX)

\* scans have come back with all five addresses; the device with the
\* lower-case address is listed and connected to
C25_Witness ==
    /\ gatt.advertised = Addresses
    /\ cp26.client = <<"4", "8", ":", "8", "7", ":", "2", "d", ":", "0", "2">>
    /\ cp26.current_screen = "interview"
    /\ Len(cp26.devices) = 2


\* ------------------------------------------------------------ cp26_tui: channels and notifications
\* the DX-BT24 the sessions below are connected to
Dx ==
    DeviceEntry([address |-> <<"4", "8", ":", "8", "7", ":", "2", "D", ":", "0", "1">>,
                 name |-> <<>>, rssi |-> -40])

\* the application after a scan that found Dx and a connect to it
ConnectedApp ==
    Connected([Cp26Start EXCEPT !.devices = <<Dx>>, !.client = Dx.address],
              Dx, Chars, DefaultName)

ConnectedGatt ==
    [GattStart EXCEPT !.clients = {Dx.address}, !.advertised = {Dx.address}]

InitNotify ==
    /\ SniffStart
    /\ blue = BlueStart
    /\ tasks = <<>>
    /\ cp26 = ConnectedApp
    /\ gatt = ConnectedGatt

\* handle_interview_keys: KEY_UP and KEY_DOWN
InterviewKeyUp ==
    /\ cp26.current_screen = "interview" /\ ~cp26.interview_action_menu
    /\ cp26.characteristics # <<>>
    /\ cp26' = [cp26 EXCEPT !.selected_char_idx = Max(0, @ - 1)]
    /\ UNCHANGED <<sniff, blue, gatt, tasks>>

InterviewKeyDown ==
    /\ cp26.current_screen = "interview" /\ ~cp26.interview_action_menu
    /\ cp26.characteristics # <<>>
    /\ cp26' = [cp26 EXCEPT
                  !.selected_char_idx = Min(Len(cp26.characteristics) - 1, @ + 1)]
    /\ UNCHANGED <<sniff, blue, gatt, tasks>>

\* handle_interview_keys: Enter opens the action menu
InterviewEnter ==
    /\ cp26.current_screen = "interview" /\ ~cp26.interview_action_menu
    /\ cp26.characteristics # <<>>
    /\ cp26' = [cp26 EXCEPT !.interview_action_menu = TRUE, !.action_menu_idx = 0]
    /\ UNCHANGED <<sniff, blue, gatt, tasks>>

\* _draw_action_menu: the options offered for a characteristic
ActionOptions(c) ==
    (IF can_write(c) THEN <<"mod_tx", "host_tx">> ELSE <<>>)
    \o (IF can_notify(c) THEN <<"mod_rx", "host_rx">> ELSE <<>>)
    \o (IF "read" \in Properties(c) THEN <<"read">> ELSE <<>>)
    \o <<"clear", "cancel">>

SelectedChar == cp26.characteristics[cp26.selected_char_idx + 1]

\* _handle_action_menu_keys: ESC, KEY_UP, KEY_DOWN
MenuEsc ==
    /\ cp26.current_screen = "interview" /\ cp26.interview_action_menu
    /\ cp26' = [cp26 EXCEPT !.interview_action_menu = FALSE]
    /\ UNCHANGED <<sniff, blue, gatt, tasks>>

MenuKeyUp ==
    /\ cp26.current_screen = "interview" /\ cp26.interview_action_menu
    /\ cp26' = [cp26 EXCEPT !.action_menu_idx = Max(0, @ - 1)]
    /\ UNCHANGED <<sniff, blue, gatt, tasks>>

MenuKeyDown ==
    /\ cp26.current_screen = "interview" /\ cp26.interview_action_menu
    /\ cp26' = [cp26 EXCEPT
                  !.action_menu_idx = Min(Len(ActionOptions(SelectedChar)) - 1, @ + 1)]
    /\ UNCHANGED <<sniff, blue, gatt, tasks>>

\* _execute_action on the application object; reading a value changes nothing
ExecuteAction(app, char, action) ==
    CASE action = "mod_tx" -> [app EXCEPT !.module_channel.tx_char = char]
      [] action = "mod_rx" -> [app EXCEPT !.module_channel.rx_char = char]
      [] action = "host_tx" -> [app EXCEPT !.host_channel.tx_char = char]
      [] action = "host_rx" -> [app EXCEPT !.host_channel.rx_char = char]
      [] action = "clear" ->
            [app EXCEPT !.module_channel.tx_char = IF @ = char THEN "" ELSE @,
                        !.module_channel.rx_char = IF @ = char THEN "" ELSE @,
                        !.host_channel.tx_char = IF @ = char THEN "" ELSE @,
                        !.host_channel.rx_char = IF @ = char THEN "" ELSE @]
      [] OTHER -> app

\* _handle_action_menu_keys: Enter runs the selected option and closes the menu
MenuEnter ==
    /\ cp26.current_screen = "interview" /\ cp26.interview_action_menu
    /\ cp26' = [ExecuteAction(cp26, SelectedChar,
                              ActionOptions(SelectedChar)[cp26.action_menu_idx + 1])
                  EXCEPT !.interview_action_menu = FALSE]
    /\ UNCHANGED <<sniff, blue, gatt, tasks>>

\* handle_interview_keys: F3; handle_console_keys: F2
InterviewKeyF3 ==
    /\ cp26.current_screen = "interview" /\ ~cp26.interview_action_menu
    /\ cp26' = [cp26 EXCEPT !.current_screen = "console"]
    /\ UNCHANGED <<sniff, blue, gatt, tasks>>

ConsoleKeyF2 ==
    /\ cp26.current_screen = "console"
    /\ cp26' = [cp26 EXCEPT !.current_screen = "interview"]
    /\ UNCHANGED <<sniff, blue, gatt, tasks>>

\* the two channels, by the attribute that holds them, and their handlers
Channels == {"module_channel", "host_channel"}
Handler(channel) == IF channel = "module_channel" THEN "module" ELSE "host"
Other(channel) == IF channel = "module_channel" THEN "host_channel" ELSE "module_channel"

\* toggle_channel_notifications (F6 and F7 on the console).  start_notify
\* and stop_notify may raise, whatever the state of the link; what
\* start_notify does on a characteristic that already notifies is the
\* library's business: it raises, or the new handler takes the
\* subscription over.
ToggleChannelNotifications(channel) ==
    /\ cp26.current_screen = "console"
    /\ cp26.client # Absent
    /\ cp26[channel].rx_char # ""
    /\ LET rx == cp26[channel].rx_char
       IN \/ \* the call raises: line 652
             /\ UNCHANGED <<cp26, gatt>>
          \/ /\ ~cp26[channel].notifications_enabled
             /\ gatt' = [gatt EXCEPT !.notify[rx] = Handler(channel)]
             /\ cp26' = [cp26 EXCEPT ![channel].notifications_enabled = TRUE]
          \/ /\ cp26[channel].notifications_enabled
             /\ gatt' = [gatt EXCEPT !.notify[rx] = "none"]
             /\ cp26' = [cp26 EXCEPT ![channel].notifications_enabled = FALSE]
    /\ UNCHANGED <<sniff, blue, tasks>>

ConsoleKeyF6 == ToggleChannelNotifications("module_channel")
ConsoleKeyF7 == ToggleChannelNotifications("host_channel")

NextNotify ==
    \/ InterviewKeyUp
    \/ InterviewKeyDown
    \/ InterviewEnter
    \/ MenuEsc
    \/ MenuKeyUp
    \/ MenuKeyDown
    \/ MenuEnter
    \/ InterviewKeyF3
    \/ ConsoleKeyF2
    \/ ConsoleKeyF6
    \/ ConsoleKeyF7

SpecNotify == InitNotify /\ [][NextNotify]_vars

\* the characteristics on which the channel's handler is subscribed
ActiveSubscriptions(g, channel) == {c \in CharSet : g.notify[c] = Handler(channel)}

\* C26: toggling the notifications of one channel leaves the other
\* channel's flag and the other channel's subscriptions on the device as
\* they were, whatever RX characteristics the channels are assigned.
\* Fails: the subscription is per characteristic, and both channels can be
\* assigned the same one.
C26_IndependentNotifications ==
    [][ \A channel \in Channels :
          ToggleChannelNotifications(channel) =>
             /\ cp26'[Other(channel)] = cp26[Other(channel)]
             /\ ActiveSubscriptions(gatt', Other(channel))
                   = ActiveSubscriptions(gatt, Other(channel))
      ]_vars


\* ------------------------------------------------------------ cp26_tui: configuration
\* n times "x"
Xs(n) == [i \in 1..n |-> 120]

\* str.strip() on text typed at the keyboard, where the only white space is the space
Strip(t) ==
    LET inked == {i \in 1..Len(t) : t[i] # 32}
    IN IF inked = {} THEN <<>>
       ELSE SubSeq(t, CHOOSE i \in inked : \A j \in inked : i <= j,
                      CHOOSE i \in inked : \A j \in inked : i >= j)

\* the number of bytes of str.encode("utf-8")
Utf8Len(c) == IF c < 128 THEN 1 ELSE IF c < 2048 THEN 2 ELSE IF c < 65536 THEN 3 ELSE 4

RECURSIVE ByteLen(_)
ByteLen(t) == IF t = <<>> THEN 0 ELSE Utf8Len(t[1]) + ByteLen(Tail(t))

\* one decimal digit as text
Digit(n) == <<48 + n>>

IndexOf(enum, x) == CHOOSE i \in 1..Len(enum) : enum[i] = x

\* list(Enum)[(idx + 1) % len]
Cycle(enum, x) == enum[(IndexOf(enum, x) % Len(enum)) + 1]

\* baud_codes and mode_codes
BaudCode(baud) == Digit(IndexOf(BaudRate, baud) - 1)
ModeCode(mode) == Digit(IndexOf(DeviceMode, mode) - 1)

\* the AT test command of enter_at_mode
AtTest == [verb |-> "AT", arg |-> <<>>]

\* the command the coroutine hands to write_config_command
Command(fn, arg) ==
    CASE fn = "set_device_name" -> [verb |-> "AT+NAME", arg |-> arg]
      [] fn = "set_baud_rate" -> [verb |-> "AT+BAUD", arg |-> BaudCode(arg)]
      [] fn = "set_mode" -> [verb |-> "AT+TYPE=", arg |-> ModeCode(arg)]
      [] fn = "set_pin" -> [verb |-> "AT+PIN=", arg |-> arg]
      [] fn = "reset_device" -> [verb |-> "AT+RESET", arg |-> <<>>]
      [] OTHER -> [verb |-> "AT+DEFAULT", arg |-> <<>>]

HasCommand(fn) ==
    fn \in {"set_device_name", "set_baud_rate", "set_mode", "set_pin",
            "reset_device", "factory_reset"}

\* the last statement of the coroutine, and of _apply_config_edit when that
\* awaited it
Store(app, t) ==
    LET stored ==
          CASE t.fn = "set_device_name" -> [app EXCEPT !.config.name = t.arg]
            [] t.fn = "set_baud_rate" -> [app EXCEPT !.config.baud_rate = t.arg]
            [] t.fn = "set_mode" -> [app EXCEPT !.config.mode = t.arg]
            [] t.fn = "set_pin" -> [app EXCEPT !.config.pin = t.arg]
            [] t.fn = "set_passthrough" -> [app EXCEPT !.config.passthrough = t.arg]
            [] OTHER -> app
    IN IF t.fn \in {"set_device_name", "set_pin"}
       THEN [stored EXCEPT !.config_edit_value = <<>>] ELSE stored

\* a coroutine object: not started, and neither write attempted
Coroutine(fn, arg, fg) ==
    [fn |-> fn, arg |-> arg, fg |-> fg, at |-> "new",
     at_result |-> "none", cmd_result |-> "none", k |-> 0]

\* how many coroutines a session starts at most
MaxCoroutines == 2

\* how long the text in an edit field gets at most
MaxEdit == 21

CanStart == MainReady /\ Len(tasks) < MaxCoroutines

\* enter_at_mode line 519, write_raw lines 499-503, write_config_command
\* lines 540-547: a client and a Module TX characteristic
CanWrite(app) == app.client # Absent /\ app.module_channel.tx_char # ""

\* the coroutine from behind its `if not self.at_mode_enabled` block up to
\* its next await or its end: <<application, coroutine>>
AfterAtMode(app, t) ==
    IF HasCommand(t.fn)
    THEN IF CanWrite(app)
         THEN <<app, [t EXCEPT !.at = "cmd_write"]>>
         ELSE <<Store(app, t), [t EXCEPT !.at = "done", !.cmd_result = "failed"]>>
    ELSE <<Store(app, t), [t EXCEPT !.at = "done"]>>

\* the four commands of _run_setup_wizard, lines 1399-1407
WizardCommands(app) ==
    << [verb |-> "AT+NAME", arg |-> app.setup_name],
       [verb |-> "AT+BAUD", arg |-> BaudCode(app.setup_baud)],
       [verb |-> "AT+APPAT=1", arg |-> <<>>],
       [verb |-> "AT+RESET", arg |-> <<>>] >>

\* A coroutine runs from one await to the next.  The first stretch, from
\* the call up to the first await:
StartCoroutine ==
    /\ \E i \in 1..Len(tasks) :
          LET t == tasks[i]
              r == IF cp26.at_mode_enabled THEN AfterAtMode(cp26, t)
                   ELSE IF CanWrite(cp26) THEN <<cp26, [t EXCEPT !.at = "at_write"]>>
                   ELSE AfterAtMode(cp26, [t EXCEPT !.at_result = "failed"])
          IN /\ t.at = "new" /\ t.fn # "_run_setup_wizard"
             /\ cp26' = r[1]
             /\ tasks' = [tasks EXCEPT ![i] = r[2]]
    /\ UNCHANGED <<sniff, blue, gatt>>

\* a coroutine the key handler awaits runs up to its first await before
\* anything else in the event loop does
NoCallPending == \A j \in 1..Len(tasks) : ~(tasks[j].fg /\ tasks[j].at = "new")

\* write_raw: the write of the AT test command returns or raises; then
\* enter_at_mode sleeps
AtWriteDone ==
    /\ NoCallPending
    /\ \E i \in 1..Len(tasks), ok \in BOOLEAN :
          /\ tasks[i].at = "at_write"
          /\ gatt' = [gatt EXCEPT !.written = IF ok THEN Append(@, AtTest) ELSE @]
          /\ tasks' = [tasks EXCEPT ![i].at = "sleep",
                                    ![i].at_result = IF ok THEN "ok" ELSE "failed"]
    /\ UNCHANGED <<sniff, blue, cp26>>

\* enter_at_mode, lines 529-531, and the caller up to its write
SleepDone ==
    /\ NoCallPending
    /\ \E i \in 1..Len(tasks) :
          LET r == AfterAtMode([cp26 EXCEPT !.at_mode_enabled = TRUE], tasks[i])
          IN /\ tasks[i].at = "sleep"
             /\ cp26' = r[1]
             /\ tasks' = [tasks EXCEPT ![i] = r[2]]
    /\ UNCHANGED <<sniff, blue, gatt>>

\* write_config_command: the write returns or raises; then the caller stores
CmdWriteDone ==
    /\ NoCallPending
    /\ \E i \in 1..Len(tasks), ok \in BOOLEAN :
          LET t == tasks[i]
          IN /\ t.at = "cmd_write"
             /\ gatt' = [gatt EXCEPT
                           !.written = IF ok THEN Append(@, Command(t.fn, t.arg)) ELSE @]
             /\ tasks' = [tasks EXCEPT ![i].at = "done",
                                       ![i].cmd_result = IF ok THEN "ok" ELSE "failed"]
             /\ cp26' = Store(cp26, t)
    /\ UNCHANGED <<sniff, blue>>

\* _run_setup_wizard: up to the first sleep, the write of command k, its
\* return or raise, and the end behind the last sleep
WizardStart ==
    /\ \E i \in 1..Len(tasks) :
          /\ tasks[i].at = "new" /\ tasks[i].fn = "_run_setup_wizard"
          /\ tasks' = [tasks EXCEPT ![i].at = "wizard_sleep", ![i].k = 1]
    /\ cp26' = [cp26 EXCEPT !.setup_step = 1]
    /\ UNCHANGED <<sniff, blue, gatt>>

WizardWrite ==
    /\ \E i \in 1..Len(tasks) :
          /\ tasks[i].at = "wizard_sleep" /\ tasks[i].k <= 4
          /\ tasks' = [tasks EXCEPT ![i].at = "wizard_write"]
    /\ UNCHANGED <<sniff, blue, gatt, cp26>>

WizardWritten ==
    /\ \E i \in 1..Len(tasks), ok \in BOOLEAN :
          /\ tasks[i].at = "wizard_write"
          /\ gatt' = [gatt EXCEPT
                        !.written = IF ok THEN Append(@, WizardCommands(cp26)[tasks[i].k])
                                    ELSE @]
          /\ tasks' = [tasks EXCEPT ![i].at = "wizard_sleep", ![i].k = @ + 1]
    /\ UNCHANGED <<sniff, blue, cp26>>

WizardEnd ==
    /\ \E i \in 1..Len(tasks) :
          /\ tasks[i].at = "wizard_sleep" /\ tasks[i].k > 4
          /\ tasks' = [tasks EXCEPT ![i].at = "done"]
    /\ cp26' = [cp26 EXCEPT !.setup_step = 2]
    /\ UNCHANGED <<sniff, blue, gatt>>

\* handle_config_keys: KEY_UP, KEY_DOWN
ConfigKeyUp ==
    /\ MainReady
    /\ cp26.current_screen = "config" /\ ~cp26.config_editing
    /\ cp26' = [cp26 EXCEPT !.config_menu_idx = Max(0, @ - 1)]
    /\ UNCHANGED <<sniff, blue, gatt, tasks>>

ConfigKeyDown ==
    /\ MainReady
    /\ cp26.current_screen = "config" /\ ~cp26.config_editing
    /\ cp26' = [cp26 EXCEPT !.config_menu_idx = Min(4, @ + 1)]
    /\ UNCHANGED <<sniff, blue, gatt, tasks>>

\* handle_config_keys: Enter, that is _start_config_edit, row by row
ConfigEnterName ==
    /\ MainReady
    /\ cp26.current_screen = "config" /\ ~cp26.config_editing
    /\ cp26.config_menu_idx = 0
    /\ cp26' = [cp26 EXCEPT !.config_editing = TRUE,
                            !.config_edit_value = cp26.config.name]
    /\ UNCHANGED <<sniff, blue, gatt, tasks>>

\* _cycle_mode
ConfigEnterMode ==
    /\ CanStart
    /\ cp26.current_screen = "config" /\ ~cp26.config_editing
    /\ cp26.config_menu_idx = 1
    /\ tasks' = Append(tasks, Coroutine("set_mode", Cycle(DeviceMode, cp26.config.mode), FALSE))
    /\ UNCHANGED <<sniff, blue, gatt, cp26>>

\* _cycle_baud
ConfigEnterBaud ==
    /\ CanStart
    /\ cp26.current_screen = "config" /\ ~cp26.config_editing
    /\ cp26.config_menu_idx = 2
    /\ tasks' = Append(tasks, Coroutine("set_baud_rate",
                                        Cycle(BaudRate, cp26.config.baud_rate), FALSE))
    /\ UNCHANGED <<sniff, blue, gatt, cp26>>

ConfigEnterPassthrough ==
    /\ CanStart
    /\ cp26.current_screen = "config" /\ ~cp26.config_editing
    /\ cp26.config_menu_idx = 3
    /\ cp26' = [cp26 EXCEPT !.config.passthrough = ~@]
    /\ tasks' = Append(tasks, Coroutine("set_passthrough", ~cp26.config.passthrough, FALSE))
    /\ UNCHANGED <<sniff, blue, gatt>>

ConfigEnterPin ==
    /\ MainReady
    /\ cp26.current_screen = "config" /\ ~cp26.config_editing
    /\ cp26.config_menu_idx = 4
    /\ cp26' = [cp26 EXCEPT !.config_editing = TRUE,
                            !.config_edit_value = cp26.config.pin]
    /\ UNCHANGED <<sniff, blue, gatt, tasks>>

\* _handle_config_edit_keys: ESC, Backspace, a printable key
ConfigEditEsc ==
    /\ MainReady
    /\ cp26.current_screen = "config" /\ cp26.config_editing
    /\ cp26' = [cp26 EXCEPT !.config_editing = FALSE, !.config_edit_value = <<>>]
    /\ UNCHANGED <<sniff, blue, gatt, tasks>>

ConfigEditBackspace ==
    /\ MainReady
    /\ cp26.current_screen = "config" /\ cp26.config_editing
    /\ cp26' = [cp26 EXCEPT
                  !.config_edit_value = IF @ = <<>> THEN @ ELSE SubSeq(@, 1, Len(@) - 1)]
    /\ UNCHANGED <<sniff, blue, gatt, tasks>>

\* the printable keys pressed: "x"
TypedKeys == {120}

ConfigEditType ==
    /\ MainReady
    /\ cp26.current_screen = "config" /\ cp26.config_editing
    /\ Len(cp26.config_edit_value) < MaxEdit
    /\ \E ch \in TypedKeys : cp26' = [cp26 EXCEPT !.config_edit_value = Append(@, ch)]
    /\ UNCHANGED <<sniff, blue, gatt, tasks>>

\* _handle_config_edit_keys: Enter, that is _apply_config_edit, which
\* awaits set_device_name or set_pin when the stripped text is not empty
ConfigEditEnterName ==
    /\ CanStart
    /\ cp26.current_screen = "config" /\ cp26.config_editing
    /\ cp26.config_menu_idx = 0 /\ Strip(cp26.config_edit_value) # <<>>
    /\ tasks' = Append(tasks, Coroutine("set_device_name",
                                        Strip(cp26.config_edit_value), TRUE))
    /\ cp26' = [cp26 EXCEPT !.config_editing = FALSE]
    /\ UNCHANGED <<sniff, blue, gatt>>

ConfigEditEnterPin ==
    /\ CanStart
    /\ cp26.current_screen = "config" /\ cp26.config_editing
    /\ cp26.config_menu_idx = 4 /\ Strip(cp26.config_edit_value) # <<>>
    /\ tasks' = Append(tasks, Coroutine("set_pin", Strip(cp26.config_edit_value), TRUE))
    /\ cp26' = [cp26 EXCEPT !.config_editing = FALSE]
    /\ UNCHANGED <<sniff, blue, gatt>>

ConfigEditEnterEmpty ==
    /\ MainReady
    /\ cp26.current_screen = "config" /\ cp26.config_editing
    /\ Strip(cp26.config_edit_value) = <<>>
    /\ cp26' = [cp26 EXCEPT !.config_editing = FALSE, !.config_edit_value = <<>>]
    /\ UNCHANGED <<sniff, blue, gatt, tasks>>

\* handle_config_keys: F5 (exit_at_mode or enter_at_mode), F6 and F7
ConfigKeyF5Exit ==
    /\ MainReady
    /\ cp26.current_screen = "config" /\ ~cp26.config_editing
    /\ cp26.at_mode_enabled
    /\ cp26' = [cp26 EXCEPT !.at_mode_enabled = FALSE]
    /\ UNCHANGED <<sniff, blue, gatt, tasks>>

ConfigKeyF5Enter ==
    /\ CanStart
    /\ cp26.current_screen = "config" /\ ~cp26.config_editing
    /\ ~cp26.at_mode_enabled
    /\ tasks' = Append(tasks, Coroutine("enter_at_mode", <<>>, TRUE))
    /\ UNCHANGED <<sniff, blue, gatt, cp26>>

ConfigKeyF6F7 ==
    /\ CanStart
    /\ cp26.current_screen = "config" /\ ~cp26.config_editing
    /\ \E fn \in {"reset_device", "factory_reset"} :
          tasks' = Append(tasks, Coroutine(fn, <<>>, TRUE))
    /\ UNCHANGED <<sniff, blue, gatt, cp26>>

\* _init_setup_wizard
InitSetupWizard(app) ==
    [app EXCEPT !.setup_step = 0, !.setup_field_idx = 0, !.setup_editing = FALSE,
                !.setup_edit_value = <<>>, !.setup_name = NewDevice,
                !.setup_baud = "9600"]

\* handle_config_keys: F8
ConfigKeyF8 ==
    /\ MainReady
    /\ cp26.current_screen = "config" /\ ~cp26.config_editing
    /\ cp26' = [InitSetupWizard(cp26) EXCEPT !.current_screen = "setup"]
    /\ UNCHANGED <<sniff, blue, gatt, tasks>>

\* handle_setup_keys, step 0, editing: ESC, Enter, Backspace, a printable key
SetupEditEsc ==
    /\ MainReady
    /\ cp26.current_screen = "setup" /\ cp26.setup_step = 0 /\ cp26.setup_editing
    /\ cp26' = [cp26 EXCEPT !.setup_editing = FALSE, !.setup_edit_value = <<>>]
    /\ UNCHANGED <<sniff, blue, gatt, tasks>>

\* text[:20]
MaxNameChars == 20

SetupEditEnter ==
    /\ MainReady
    /\ cp26.current_screen = "setup" /\ cp26.setup_step = 0 /\ cp26.setup_editing
    /\ LET value == Strip(cp26.setup_edit_value)
       IN cp26' = [cp26 EXCEPT
                     !.setup_name = IF cp26.setup_field_idx = 0 /\ value # <<>>
                                    THEN SubSeq(value, 1, Min(MaxNameChars, Len(value)))
                                    ELSE @,
                     !.setup_editing = FALSE,
                     !.setup_edit_value = <<>>]
    /\ UNCHANGED <<sniff, blue, gatt, tasks>>

SetupEditBackspace ==
    /\ MainReady
    /\ cp26.current_screen = "setup" /\ cp26.setup_step = 0 /\ cp26.setup_editing
    /\ cp26' = [cp26 EXCEPT
                  !.setup_edit_value = IF @ = <<>> THEN @ ELSE SubSeq(@, 1, Len(@) - 1)]
    /\ UNCHANGED <<sniff, blue, gatt, tasks>>

SetupEditType ==
    /\ MainReady
    /\ cp26.current_screen = "setup" /\ cp26.setup_step = 0 /\ cp26.setup_editing
    /\ Len(cp26.setup_edit_value) < MaxEdit
    /\ \E ch \in TypedKeys : cp26' = [cp26 EXCEPT !.setup_edit_value = Append(@, ch)]
    /\ UNCHANGED <<sniff, blue, gatt, tasks>>

\* handle_setup_keys, step 0, not editing: ESC, KEY_UP, KEY_DOWN, Enter, F5
SetupEsc ==
    /\ MainReady
    /\ cp26.current_screen = "setup" /\ cp26.setup_step = 0 /\ ~cp26.setup_editing
    /\ cp26' = [cp26 EXCEPT !.current_screen = "console"]
    /\ UNCHANGED <<sniff, blue, gatt, tasks>>

SetupKeyUp ==
    /\ MainReady
    /\ cp26.current_screen = "setup" /\ cp26.setup_step = 0 /\ ~cp26.setup_editing
    /\ cp26' = [cp26 EXCEPT !.setup_field_idx = Max(0, @ - 1)]
    /\ UNCHANGED <<sniff, blue, gatt, tasks>>

SetupKeyDown ==
    /\ MainReady
    /\ cp26.current_screen = "setup" /\ cp26.setup_step = 0 /\ ~cp26.setup_editing
    /\ cp26' = [cp26 EXCEPT !.setup_field_idx = Min(2, @ + 1)]
    /\ UNCHANGED <<sniff, blue, gatt, tasks>>

SetupEnter ==
    /\ MainReady
    /\ cp26.current_screen = "setup" /\ cp26.setup_step = 0 /\ ~cp26.setup_editing
    /\ cp26.setup_field_idx \in {0, 1}
    /\ cp26' = IF cp26.setup_field_idx = 0
               THEN [cp26 EXCEPT !.setup_editing = TRUE,
                                 !.setup_edit_value = cp26.setup_name]
               ELSE [cp26 EXCEPT !.setup_baud = Cycle(BaudRate, @)]
    /\ UNCHANGED <<sniff, blue, gatt, tasks>>

\* F5: _run_setup_wizard, which returns at once without a client or a
\* Module TX characteristic
SetupKeyF5 ==
    /\ CanStart
    /\ cp26.current_screen = "setup" /\ cp26.setup_step = 0 /\ ~cp26.setup_editing
    /\ CanWrite(cp26)
    /\ tasks' = Append(tasks, Coroutine("_run_setup_wizard", <<>>, TRUE))
    /\ UNCHANGED <<sniff, blue, gatt, cp26>>

\* handle_setup_keys, step 2: Enter or ESC
SetupDone ==
    /\ MainReady
    /\ cp26.current_screen = "setup" /\ cp26.setup_step = 2
    /\ cp26' = [cp26 EXCEPT !.current_screen = "console"]
    /\ UNCHANGED <<sniff, blue, gatt, tasks>>

\* handle_console_keys: F4
ConsoleKeyF4 ==
    /\ MainReady
    /\ cp26.current_screen = "console"
    /\ cp26' = [cp26 EXCEPT !.current_screen = "config"]
    /\ UNCHANGED <<sniff, blue, gatt, tasks>>


\* ------------------------------------------------------------ cp26_tui: naming the device
\* the name the peripheral of the configuration sessions reports: 19 times "x"
LongName == Xs(19)

\* connected to Dx and F4 pressed on the interview screen: the config
\* screen, on its Device Name row
InitName ==
    /\ SniffStart
    /\ blue = BlueStart
    /\ tasks = <<>>
    /\ gatt = ConnectedGatt
    /\ cp26 = [Connected([Cp26Start EXCEPT !.devices = <<Dx>>, !.client = Dx.address],
                         Dx, Chars, LongName)
                 EXCEPT !.current_screen = "config"]

NextName ==
    \/ ConfigEnterName
    \/ ConfigEditEsc
    \/ ConfigEditBackspace
    \/ ConfigEditType
    \/ ConfigEditEnterName
    \/ ConfigEditEnterEmpty
    \/ StartCoroutine
    \/ AtWriteDone
    \/ SleepDone
    \/ CmdWriteDone

SpecName == InitName /\ [][NextName]_vars

\* F8 pressed on the config screen: the setup wizard, as initialised
InitSetup ==
    /\ SniffStart
    /\ blue = BlueStart
    /\ tasks = <<>>
    /\ gatt = ConnectedGatt
    /\ cp26 = [Connected([Cp26Start EXCEPT !.devices = <<Dx>>, !.client = Dx.address],
                         Dx, Chars, LongName)
                 EXCEPT !.current_screen = "setup"]

NextSetup ==
    \/ SetupEditEsc
    \/ SetupEditEnter
    \/ SetupEditBackspace
    \/ SetupEditType
    \/ SetupEsc
    \/ SetupKeyUp
    \/ SetupKeyDown
    \/ SetupEnter
    \/ SetupKeyF5
    \/ WizardStart
    \/ WizardWrite
    \/ WizardWritten
    \/ WizardEnd
    \/ SetupDone
    \/ ConsoleKeyF4

SpecSetup == InitSetup /\ [][NextSetup]_vars

\* C27: every AT+NAME command written to the peripheral, from the config
\* screen or from the setup wizard, carries a name of at most 20 bytes.
\* Fails for the config screen, which sends the edited text as it is.
C27_NameAtMost20Bytes ==
    \A i \in 1..Len(gatt.written) :
        gatt.written[i].verb = "AT+NAME" => ByteLen(gatt.written[i].arg) <= MaxNameChars


\* ------------------------------------------------------------ cp26_tui: Mode and Baud Rate rows
\* the config screen of a fresh connection, on its Mode row
InitCycle ==
    /\ SniffStart
    /\ blue = BlueStart
    /\ tasks = <<>>
    /\ gatt = ConnectedGatt
    /\ cp26 = [Connected([Cp26Start EXCEPT !.devices = <<Dx>>, !.client = Dx.address],
                         Dx, Chars, DefaultName)
                 EXCEPT !.current_screen = "config", !.config_menu_idx = 1]

NextCycle ==
    \/ ConfigKeyUp
    \/ ConfigKeyDown
    \/ ConfigEnterMode
    \/ ConfigEnterBaud
    \/ StartCoroutine
    \/ AtWriteDone
    \/ SleepDone
    \/ CmdWriteDone

SpecCycle == InitCycle /\ [][NextCycle]_vars

\* the tasks an Enter on the row created
Pressed(fn) == {i \in 1..Len(tasks) : tasks[i].fn = fn}

\* k steps from x in the cyclic order of the enumeration
RECURSIVE Steps(_, _, _)
Steps(enum, x, k) == IF k = 0 THEN x ELSE Steps(enum, Cycle(enum, x), k - 1)

\* the arguments of the commands with this verb, in the order written
WrittenArgs(verb) ==
    LET cmds == SelectSeq(gatt.written, LAMBDA c : c.verb = verb)
    IN [i \in 1..Len(cmds) |-> cmds[i].arg]

\* C28: once the tasks of k Enter presses on the Mode row (and of the
\* presses on the Baud Rate row) have finished, the stored setting is k
\* cyclic steps from where it started; when no write raised, the k commands
\* written are those of the k successive settings; and the AT test command
\* was written at most once.
\* Fails: an Enter handled while the task of the one before is still
\* awaiting reads the setting that task has not stored yet.
C28_EachEnterOneStep ==
    (\A i \in 1..Len(tasks) : tasks[i].at = "done") =>
        LET m == Cardinality(Pressed("set_mode"))
            b == Cardinality(Pressed("set_baud_rate"))
        IN /\ cp26.config.mode = Steps(DeviceMode, CP26Config.mode, m)
           /\ cp26.config.baud_rate = Steps(BaudRate, CP26Config.baud_rate, b)
           /\ (\A i \in 1..Len(tasks) : tasks[i].cmd_result = "ok") =>
                 /\ WrittenArgs("AT+TYPE=")
                      = [j \in 1..m |-> ModeCode(Steps(DeviceMode, CP26Config.mode, j))]
                 /\ WrittenArgs("AT+BAUD")
                      = [j \in 1..b |-> BaudCode(Steps(BaudRate, CP26Config.baud_rate, j))]
           /\ Cardinality({i \in 1..Len(gatt.written) : gatt.written[i] = AtTest}) <= 1


\* ------------------------------------------------------------ blue_tui
\* scan_devices, lines 79-81: one entry per device found, `d.name or "Unknown"`
BlueEntry(adv) ==
    [address |-> adv.address, name |-> IF adv.name # <<>> THEN adv.name ELSE UnknownName]

\* what one discovery of blue_tui returns: the signal strength is not looked at
BlueFound == {f \in Found : \A i \in 1..Len(f) : f[i].rssi = -40}

\* the subscriber blue_tui hands to start_notify: self.notification_handler
BlueHandler == "blue"

\* scan_devices: `s` on the devices screen
BlueScanDevices ==
    /\ blue.current_screen = "devices"
    /\ \/ \* discover raises: the list stays empty
          /\ blue' = [blue EXCEPT !.devices = <<>>, !.selected_device_idx = 0]
          /\ UNCHANGED gatt
       \/ \E f \in BlueFound :
             /\ blue' = [blue EXCEPT !.devices = [i \in 1..Len(f) |-> BlueEntry(f[i])],
                                     !.selected_device_idx = 0]
             /\ gatt' = [gatt EXCEPT
                           !.advertised = @ \cup {f[i].address : i \in 1..Len(f)}]
    /\ UNCHANGED <<sniff, cp26, tasks>>

\* handle_devices_keys: KEY_UP, KEY_DOWN
BlueDevicesKeyUp ==
    /\ blue.current_screen = "devices"
    /\ blue.devices # <<>>
    /\ blue' = [blue EXCEPT !.selected_device_idx = Max(0, @ - 1)]
    /\ UNCHANGED <<sniff, cp26, gatt, tasks>>

BlueDevicesKeyDown ==
    /\ blue.current_screen = "devices"
    /\ blue.devices # <<>>
    /\ blue' = [blue EXCEPT !.selected_device_idx = Min(Len(blue.devices) - 1, @ + 1)]
    /\ UNCHANGED <<sniff, cp26, gatt, tasks>>

\* disconnect, lines 122-126; the link goes down with client.disconnect()
BlueDisconnected(app) ==
    [app EXCEPT !.client = Absent, !.connected_device = Absent,
                !.characteristics = <<>>, !.selected_char_idx = 0,
                !.console_char = "", !.notifications_enabled = FALSE]

\* connect_selected_device: Enter on the devices screen
BlueConnectSelectedDevice ==
    /\ blue.current_screen = "devices"
    /\ blue.devices # <<>>
    /\ LET dev == blue.devices[blue.selected_device_idx + 1]
           app == BlueDisconnected(blue)
       IN /\ gatt' = [LinkDown(gatt) EXCEPT !.clients = @ \cup {dev.address}]
          /\ \/ \* connect() raises, or returns without a connection
                blue' = app
             \/ \E profile \in Profiles :
                   blue' = [app EXCEPT !.client = dev.address,
                                       !.connected_device = <<dev>>,
                                       !.characteristics = profile,
                                       !.current_screen = "chars"]
    /\ UNCHANGED <<sniff, cp26, tasks>>

\* handle_chars_keys: `d`
BlueCharsKeyD ==
    /\ blue.current_screen = "chars"
    /\ blue' = [BlueDisconnected(blue) EXCEPT !.current_screen = "devices"]
    /\ gatt' = LinkDown(gatt)
    /\ UNCHANGED <<sniff, cp26, tasks>>

\* handle_chars_keys: KEY_UP, KEY_DOWN
BlueCharsKeyUp ==
    /\ blue.current_screen = "chars"
    /\ blue.characteristics # <<>>
    /\ blue' = [blue EXCEPT !.selected_char_idx = Max(0, @ - 1)]
    /\ UNCHANGED <<sniff, cp26, gatt, tasks>>

BlueCharsKeyDown ==
    /\ blue.current_screen = "chars"
    /\ blue.characteristics # <<>>
    /\ blue' = [blue EXCEPT !.selected_char_idx = Min(Len(blue.characteristics) - 1, @ + 1)]
    /\ UNCHANGED <<sniff, cp26, gatt, tasks>>

\* handle_chars_keys: Enter opens the console on the selected
\* characteristic; nothing is said to the peripheral
BlueCharsEnter ==
    /\ blue.current_screen = "chars"
    /\ blue.characteristics # <<>>
    /\ blue' = [blue EXCEPT !.console_char = blue.characteristics[blue.selected_char_idx + 1],
                            !.notifications_enabled = FALSE,
                            !.current_screen = "console"]
    /\ UNCHANGED <<sniff, cp26, gatt, tasks>>

\* handle_console_keys: `b`
BlueConsoleKeyB ==
    /\ blue.current_screen = "console"
    /\ blue' = [blue EXCEPT !.current_screen = "chars"]
    /\ UNCHANGED <<sniff, cp26, gatt, tasks>>

\* toggle_notifications: `n` on the console.  start_notify and stop_notify
\* may raise.
BlueToggleNotifications ==
    /\ blue.current_screen = "console"
    /\ blue.client # Absent /\ blue.console_char # ""
    /\ LET uuid == blue.console_char
       IN \/ \* the call raises: lines 180-181
             /\ UNCHANGED <<blue, gatt>>
          \/ /\ ~blue.notifications_enabled
             /\ gatt' = [gatt EXCEPT !.notify[uuid] = BlueHandler]
             /\ blue' = [blue EXCEPT !.notifications_enabled = TRUE]
          \/ /\ blue.notifications_enabled
             /\ gatt' = [gatt EXCEPT !.notify[uuid] = "none"]
             /\ blue' = [blue EXCEPT !.notifications_enabled = FALSE]
    /\ UNCHANGED <<sniff, cp26, tasks>>

InitBlue == SniffStart /\ TuiStart

NextBlue ==
    \/ BlueScanDevices
    \/ BlueDevicesKeyUp
    \/ BlueDevicesKeyDown
    \/ BlueConnectSelectedDevice
    \/ BlueCharsKeyD
    \/ BlueCharsKeyUp
    \/ BlueCharsKeyDown
    \/ BlueCharsEnter
    \/ BlueConsoleKeyB
    \/ BlueToggleNotifications

SpecBlue == InitBlue /\ [][NextBlue]_vars

\* C29: after any sequence of key events, notifications_enabled is True
\* exactly when a subscription of the application is active on the current
\* console characteristic.
\* Fails: opening the console clears the flag and leaving it keeps the
\* subscription, so a subscription outlives the flag.
C29_FlagMatchesSubscription ==
    blue.notifications_enabled
       <=> (blue.console_char # "" /\ gatt.notify[blue.console_char] = BlueHandler)


\* ------------------------------------------------------------ cp26_tui: what the config screen stores
\* the config screen of a fresh connection, to a peripheral with the serial
\* service or to one without a writable characteristic
InitStore ==
    /\ SniffStart
    /\ blue = BlueStart
    /\ tasks = <<>>
    /\ gatt = ConnectedGatt
    /\ \E profile \in Profiles :
          cp26 = [Connected([Cp26Start EXCEPT !.devices = <<Dx>>, !.client = Dx.address],
                            Dx, profile, DefaultName)
                    EXCEPT !.current_screen = "config"]

NextStore ==
    \/ ConfigKeyUp
    \/ ConfigKeyDown
    \/ ConfigEnterName
    \/ ConfigEnterMode
    \/ ConfigEnterBaud
    \/ ConfigEnterPin
    \/ ConfigEditEsc
    \/ ConfigEditBackspace
    \/ ConfigEditEnterName
    \/ ConfigEditEnterPin
    \/ ConfigEditEnterEmpty
    \/ ConfigKeyF5Exit
    \/ ConfigKeyF5Enter
    \/ StartCoroutine
    \/ AtWriteDone
    \/ SleepDone
    \/ CmdWriteDone

SpecStore == InitStore /\ [][NextStore]_vars

\* this step wrote the command to the peripheral
Wrote(cmd) == gatt' = [gatt EXCEPT !.written = Append(@, cmd)]

\* C30: the stored name, baud rate, mode and PIN change only in a step that
\* writes the command of the new value to the peripheral, and the AT-mode
\* flag is set only by a coroutine whose AT test command was written.
\* Fails: the set_* coroutines store whatever write_config_command returns,
\* and enter_at_mode does not look at what write_raw returns.
C30_StoredOnlyWhenWritten ==
    [][ /\ cp26'.config.name # cp26.config.name
            => Wrote(Command("set_device_name", cp26'.config.name))
        /\ cp26'.config.baud_rate # cp26.config.baud_rate
            => Wrote(Command("set_baud_rate", cp26'.config.baud_rate))
        /\ cp26'.config.mode # cp26.config.mode
            => Wrote(Command("set_mode", cp26'.config.mode))
        /\ cp26'.config.pin # cp26.config.pin
            => Wrote(Command("set_pin", cp26'.config.pin))
        /\ (~cp26.at_mode_enabled /\ cp26'.at_mode_enabled)
            => \E i \in 1..Len(tasks) :
                  /\ tasks[i].at = "sleep" /\ tasks'[i].at # "sleep"
                  /\ tasks[i].at_result = "ok"
      ]_vars


\* ------------------------------------------------------------ raw bytes behind an accepted header
\* how many raw bytes follow the header
MaxTail == 5

\* a sync marker, a header announcing one or two data bytes, then any bytes
RawBodies ==
    {SYNC \o <<1, 2, 0, l>> \o t : l \in {1, 2}, t \in SeqsUpTo(Alphabet, MaxTail)}

InitRaw ==
    /\ stream \in RawBodies
    /\ frames = <<>>
    /\ start = 0
    /\ filler = <<>>
    /\ Start
    /\ TuiStart

SpecRaw == InitRaw /\ [][Next]_vars

\* what read_decoded_byte has to give on the bytes not yet consumed
NextDecoded ==
    LET raw == SubSeq(stream, consumed + 1, Len(stream))
    IN IF raw = <<>> THEN None
       ELSE IF raw[1] # ESC THEN raw[1]
       ELSE IF Len(raw) < 2 THEN None ELSE raw[2]

\* C31: behind an accepted header the data and CRC bytes are taken by count.
\* A step in the data or CRC states never consumes a sync marker (syncAt
\* stays), a value read is the next decoded byte of the line whatever it is,
\* a data byte read is appended, and frame assembly is left for the sync
\* search only when a read has failed.
C31_DataAndCrcByCount ==
    [][ (pc \in {"data", "crc0", "crc1"}) =>
          /\ syncAt' = syncAt
          /\ pc' # "sync" => pc' \in {"data", "crc0", "crc1", "emit"}
          /\ (pc = "data" /\ v' # None) => (v' = NextDecoded /\ data' = Append(data, v'))
          /\ (pc = "data" /\ pc' = "sync") => v' = None
          /\ (pc = "crc0" /\ crc0' # None) => crc0' = NextDecoded
          /\ (pc = "crc1" /\ crc1' # None) => crc1' = NextDecoded
          /\ (pc = "crc1" /\ pc' = "sync") => None \in {crc0, crc1'}
      ]_vars

\* a frame whose two data bytes were a raw 0x7E 0x7E is being printed, and
\* its CRC holds a 0x7E too
C31_Witness ==
    /\ pc = "emit"
    /\ data = SYNC
    /\ RawSince = <<1, 2, 0, 2>> \o SYNC \o <<crc0, crc1>>
    /\ crc1 = SyncByte


\* ------------------------------------------------------------ chunk boundaries
\* the step holds a source read that came back empty although the
\* transport has bytes left
EarlyEmptyRead ==
    /\ pos' < Len(stream)
    /\ \/ ReadFails
       \/ pc = "sync" /\ syncResult' = "exhausted"

\* the decode loop on a transport that cuts the stream into non-empty
\* chunks wherever it likes and comes back empty only at the stream's end
NextChunks == Next /\ ~EarlyEmptyRead

SpecChunks == (Init \/ InitRaw) /\ [][NextChunks]_vars

\* read_decoded_byte when everything the transport will ever deliver is
\* in the buffer already
ReadBuffered(b) == ReadDecodedByte(b, Len(stream), <<>>)

\* the data loop of main on such a buffer
RECURSIVE DataLoop(_, _, _)
DataLoop(b, n, d) ==
    IF n = 0 THEN [ok |-> TRUE, data |-> d, buf |-> b]
    ELSE LET r == ReadBuffered(b)
         IN IF r.val = None THEN [ok |-> FALSE, data |-> d, buf |-> r.buf]
            ELSE DataLoop(r.buf, n - 1, Append(d, r.val))

\* the run of main in which the first source read returns the whole
\* stream: the frames printed and the buffer when the loop has come to rest
RECURSIVE OneChunkRun(_, _)
OneChunkRun(b, printed) ==
    LET idx == Find(b)
    IN IF idx = -1 THEN [out |-> printed, buf |-> b]
       ELSE LET t == ReadBuffered(ConsumeThrough(b, idx))
                f == ReadBuffered(t.buf)
                st == ReadBuffered(f.buf)
                l == ReadBuffered(st.buf)
            IN IF None \in {t.val, f.val, st.val, l.val}
                  \/ HeaderRejected(t.val, f.val, l.val)
               THEN OneChunkRun(l.buf, printed)
               ELSE LET d == DataLoop(l.buf, l.val, <<>>)
                        c0 == ReadBuffered(d.buf)
                        c1 == ReadBuffered(c0.buf)
                    IN IF ~d.ok THEN OneChunkRun(d.buf, printed)
                       ELSE IF None \in {c0.val, c1.val} THEN OneChunkRun(c1.buf, printed)
                       ELSE OneChunkRun(c1.buf,
                               Append(printed,
                                      Frame(t.val, f.val, st.val, l.val, d.data,
                                            c0.val, c1.val)))

\* the stream is used up and the sync search has come back empty-handed
AtRest == pc = "sync" /\ pos = Len(stream) /\ syncResult = "exhausted"

MaxRaw == 5
MaxN == 3
MaxReads == 3

\* streams whose bytes are all different: 1, 2, 3, ...
Counting == {[i \in 1..len |-> i] : len \in 0..MaxRaw}

\* bs.read_raw is called over and over; some bytes may be buffered already
InitReadRaw ==
    /\ stream \in Counting
    /\ frames = <<>> /\ start = 0 /\ filler = <<>>
    /\ pos \in 0..Len(stream)
    /\ buf = SubSeq(stream, 1, pos)
    /\ consumed = 0
    /\ pc = "read_raw"
    /\ to_ = None /\ frm = None /\ status = None /\ length = None
    /\ data = <<>> /\ v = None
    /\ crc0 = None /\ crc1 = None
    /\ s_ = NoStatus
    /\ out = <<>>
    /\ syncResult = "idle"
    /\ shortRead = FALSE
    /\ straddled = "no"
    /\ straddleAt = 0
    /\ syncAt = 0
    /\ outAt = <<>>
    /\ idle = "none"
    /\ written = 0
    /\ port = "open"
    /\ discarded = 0
    /\ TuiStart

\* data = bs.read_raw(length), the source answering the reads of _fill with
\* chunks of the sizes ks; v is None when read_raw returned None
CallReadRaw ==
    /\ pc = "read_raw"
    /\ \E n \in 1..MaxN, ks \in SeqsUpTo(0..2, MaxReads) :
       LET r == ReadRaw(buf, pos, n, ks)
       IN /\ length' = n
          /\ buf' = r.buf
          /\ pos' = r.pos
          /\ data' = r.bytes
          /\ v' = IF r.ok THEN 0 ELSE None
          /\ consumed' = consumed + Len(r.bytes)
    /\ UNCHANGED <<line, pc, to_, frm, status, crc0, crc1, s_, out, syncResult,
                   shortRead, straddled, straddleAt, syncAt, outAt, idle, written,
                   port, discarded, tui>>

SpecReadRaw == InitReadRaw /\ [][CallReadRaw]_vars

\* the bytes a read_raw call has at hand: the buffer and what the source
\* delivers during the call
AtHand == buf \o SubSeq(stream, pos + 1, pos')

\* C33: read_raw(n), n >= 1, either returns the n oldest bytes at hand in
\* arrival order and removes exactly those from the buffer, or returns None,
\* never fewer bytes, removes nothing and keeps what was fetched; it returns
\* None exactly when the source came back empty before n bytes were
\* buffered.
C33_ReadRawAllOrNothing ==
    [][ (pc = "read_raw") =>
          /\ v' # None =>
                /\ Len(AtHand) >= length'
                /\ data' = SubSeq(AtHand, 1, length')
                /\ buf' = SubSeq(AtHand, length' + 1, Len(AtHand))
                /\ data' = SubSeq(stream, consumed + 1, consumed + length')
          /\ v' = None =>
                /\ Len(AtHand) < length'
                /\ data' = <<>>
                /\ buf' = AtHand
                /\ consumed' = consumed
          /\ buf' = SubSeq(stream, consumed' + 1, pos')
      ]_vars

\* a call for three bytes found one buffered, fetched one more and then
\* failed: both stay buffered; and an earlier call had returned byte 1
C33_Witness ==
    /\ v = None /\ length = 3
    /\ consumed = 1
    /\ buf = <<2, 3>> /\ pos = 3 /\ Len(stream) = 4


\* ------------------------------------------------------------ the buffer as a queue
\* C34: the buffer is a FIFO queue of the source's bytes.  In every state
\* it is what the source has returned so far (the stream from where the
\* port was opened up to pos) without a prefix of it, and in every step
\* bytes leave at the head only and enter at the tail only, in the order
\* the source returned them.
C34_BufferIsFifo ==
    /\ [](/\ start <= consumed /\ consumed <= pos /\ pos <= Len(stream)
          /\ buf = SubSeq(stream, consumed + 1, pos))
    /\ [][ /\ pos' >= pos /\ consumed' >= consumed
           /\ \E k \in 0..(Len(buf) + pos' - pos) :
                 buf' = SubSeq(buf \o SubSeq(stream, pos + 1, pos'), k + 1,
                               Len(buf) + pos' - pos)
       ]_vars

\* the sync search is fetching for the second time at least: bytes were
\* consumed at the head, two or more are buffered, more are to come
C34_Witness ==
    /\ pc = "sync" /\ syncResult = "searching"
    /\ consumed > 0 /\ Len(buf) >= 2 /\ pos < Len(stream)
    /\ buf[1] # buf[2]


\* ------------------------------------------------------------ a line without sync markers
\* how many bytes of noise the line delivers: more than one read can hold
MaxNoise == 300

\* noise with a lone 0x7E every third byte: 00 00 7E 00 00 7E ...
Noise(n) == [i \in 1..n |-> IF i % 3 = 0 THEN SyncByte ELSE 0]

InitNoise ==
    /\ stream = Noise(MaxNoise)
    /\ frames = <<>>
    /\ start = 0
    /\ filler = <<>>
    /\ Start
    /\ TuiStart

\* without a marker main never gets past line 125
SpecNoise == InitNoise /\ [][FindAndConsumeSync]_vars

\* C35: as long as what the source has delivered holds no 0x7E 0x7E, the
\* sync search has discarded nothing: the buffer holds every byte read from
\* the source, in order, however many that are and however many calls came
\* back empty-handed.
C35_NoiseKeptInFull ==
    ~HasSync(SubSeq(stream, 1, pos)) =>
        /\ Len(buf) = pos
        /\ buf = SubSeq(stream, 1, pos)
        /\ consumed = 0

\* the search has returned False with more bytes buffered than one source
\* read can deliver
C35_Witness ==
    /\ syncResult = "exhausted"
    /\ Len(buf) > ReadSize
    /\ Len(buf) = Len(stream)


\* ------------------------------------------------------------ the flag list
\* `if cond: flags.append(x)`
AppendIf(flags, cond, x) == IF cond THEN Append(flags, x) ELSE flags

\* f"id={s['message_identifier']}"
IdFlag(s) == IF s.message_identifier = 0 THEN "id=0" ELSE "id=1"

\* the flags of a command, lines 164-171
CommandFlags(s) ==
    LET f1 == AppendIf(<<>>, s.synchronization, "sync")
        f2 == Append(f1, IdFlag(s))
        f3 == AppendIf(f2, s.check_request, "check_request")
        f4 == AppendIf(f3, s.abort_request, "abort_request")
    IN AppendIf(f4, s.reserved_bit4 \/ s.reserved_bit5 \/ s.reserved_bit6,
                "reserved_bits_set")

\* the flags of a response, lines 173-182
ResponseFlags(s) ==
    LET f1 == AppendIf(<<>>, s.synchronization, "sync")
        f2 == Append(f1, IdFlag(s))
        f3 == AppendIf(f2, s.busy, "busy")
        f4 == AppendIf(f3, s.request_aborted, "request_aborted")
        f5 == AppendIf(f4, s.no_request_active, "no_request_active")
        f6 == AppendIf(f5, s.buffer_overrun, "buffer_overrun")
        f7 == AppendIf(f6, s.not_supported, "not_supported")
    IN AppendIf(f7, Len(f7) = 2, "ok")

Flags(s) == IF s.message_type = "command" THEN CommandFlags(s) ELSE ResponseFlags(s)

\* lines 163-187 behind s = decode_status(status): the flag list is built
\* and the first line of the record is printed; `out` takes what of that
\* line depends on the status byte
BuildFlags ==
    /\ pc = "decoded"
    /\ out' = Append(out, [type |-> s_.message_type, status |-> status,
                           flags |-> Flags(s_)])
    /\ pc' = "printed"
    /\ UNCHANGED <<line, pos, buf, consumed, to_, frm, status, length, data, v,
                   crc0, crc1, s_, syncResult, shortRead, straddled, straddleAt,
                   syncAt, outAt, idle, written, port, discarded, tui>>

NextFlags ==
    \/ CallDecodeStatus
    \/ BuildFlags

SpecFlags == InitStatus /\ [][NextFlags]_vars

\* the list holds the entry
Holds(flags, x) == \E i \in 1..Len(flags) : flags[i] = x

\* one of the five error bits of a response is set
ErrorFlagged(s) ==
    s.busy \/ s.request_aborted \/ s.no_request_active \/ s.buffer_overrun
       \/ s.not_supported

\* C36: in the flag list printed for a response, "ok" appears exactly when
\* none of busy, request_aborted, no_request_active, buffer_overrun,
\* not_supported is set, with the synchronization bit set or clear.
\* Fails: "ok" is appended when the list has two entries, which without the
\* sync entry means the id and one error flag.
C36_OkIffNoError ==
    \A i \in 1..Len(out) :
        out[i].type = "response" =>
            (Holds(out[i].flags, "ok") <=> ~ErrorFlagged(DecodeStatus(out[i].status)))


\* ------------------------------------------------------------ headers
\* a sync marker, one header and two more bytes: the header stuffed by the
\* peer, with every value of length, or raw
Headers ==
    LET hs == {<<t, f, s, l>> : t \in {1, SyncByte}, f \in {2, SyncByte},
                                s \in {0, SyncByte, 255}, l \in Byte}
    IN {SYNC \o Escape(h) \o <<0, 0>> : h \in hs}
          \cup {SYNC \o h \o <<0, 0>> : h \in {g \in hs : g[4] \in {0, ESC, SyncByte, 255}}}

InitHeader ==
    /\ stream \in Headers
    /\ frames = <<>>
    /\ start = 0
    /\ filler = <<>>
    /\ Start
    /\ TuiStart

SpecHeader == InitHeader /\ [][Next]_vars

\* C37: length is one decoded byte, so it is in 0..255 whenever it is set
\* and the test length > 255 never holds; a header whose four reads all
\* succeeded is rejected exactly when to = 0x7E or from = 0x7E, whatever
\* status and length are.
C37_RejectedOnSyncByteOnly ==
    /\ [](length \in Byte \cup {None} /\ ~(length # None /\ length > MAX_DATA_LEN))
    /\ [][ (pc = "length" /\ None \notin {to_, frm, status, length'}) =>
             /\ (pc' = "sync") <=> (to_ = SyncByte \/ frm = SyncByte)
             /\ (pc' # "sync") => pc' \in {"data", "crc0"}
       ]_vars

\* a header with status 0x7E and length 255 was accepted
C37_Witness ==
    /\ pc = "data"
    /\ status = SyncByte /\ length = MAX_DATA_LEN
    /\ to_ = 1 /\ frm = 2


\* ------------------------------------------------------------ cp26_tui: the console's input line
\* the longest input line typed and the number of writes followed
MaxInput == 3
MaxSends == 2

\* the keys typed at the console: "4", "G", " "
ConsoleKeys == {52, 71, 32}

\* the console's part of CP26TuiApp.__init__; log holds SerialChannel.log
\* of each channel
ConsoleStart ==
    [console_input |-> <<>>, input_mode |-> "ASCII", status_message |-> <<>>,
     log |-> [c \in Channels |-> <<>>]]

\* the attribute active_channel points at
ActiveChannel(app) ==
    IF app.active_channel = "Module" THEN "module_channel" ELSE "host_channel"

\* the connected application on its console, with both or one of the
\* peripheral's services assigned
InitSend ==
    /\ SniffStart
    /\ blue = BlueStart
    /\ tasks = <<>>
    /\ gatt = ConnectedGatt
    /\ \E profile \in Profiles :
          cp26 = [Connected([Cp26Start EXCEPT !.devices = <<Dx>>, !.client = Dx.address],
                            Dx, profile, DefaultName)
                    EXCEPT !.current_screen = "console"] @@ ConsoleStart

\* handle_console_keys: a printable key, Backspace, F1, F5
ConsoleKeyChar ==
    /\ cp26.current_screen = "console"
    /\ Len(cp26.console_input) < MaxInput
    /\ \E ch \in ConsoleKeys :
          cp26' = [cp26 EXCEPT !.console_input = Append(@, ch)]
    /\ UNCHANGED <<sniff, blue, gatt, tasks>>

ConsoleKeyBackspace ==
    /\ cp26.current_screen = "console"
    /\ cp26.console_input # <<>>
    /\ cp26' = [cp26 EXCEPT !.console_input = SubSeq(@, 1, Len(@) - 1)]
    /\ UNCHANGED <<sniff, blue, gatt, tasks>>

ConsoleKeyF1 ==
    /\ cp26.current_screen = "console"
    /\ cp26' = [cp26 EXCEPT
                  !.active_channel = IF @ = "Module" THEN "Host" ELSE "Module",
                  !.status_message = "Switched"]
    /\ UNCHANGED <<sniff, blue, gatt, tasks>>

ConsoleKeyF5 ==
    /\ cp26.current_screen = "console"
    /\ cp26' = [cp26 EXCEPT
                  !.input_mode = IF @ = "ASCII" THEN "HEX" ELSE "ASCII",
                  !.status_message = "Input mode"]
    /\ UNCHANGED <<sniff, blue, gatt, tasks>>

\* text.replace(" ", "").replace(":", "").replace("-", "")
HexClean(t) == SelectSeq(t, LAMBDA c : c \notin {32, 58, 45})

\* re.match(r'^[0-9a-fA-F]*$', t), on text without a line break
HexDigits == (48..57) \cup (97..102) \cup (65..70)
IsHex(t) == \A i \in 1..Len(t) : t[i] \in HexDigits

\* bytes.fromhex on an even number of hex digits
HexVal(c) == IF c <= 57 THEN c - 48 ELSE IF c >= 97 THEN c - 87 ELSE c - 55
FromHex(t) == [i \in 1..(Len(t) \div 2) |-> 16 * HexVal(t[2 * i - 1]) + HexVal(t[2 * i])]

\* str.encode("utf-8") on what the console accepts, the characters 32..126:
\* one byte each
Utf8(t) == [i \in 1..Len(t) |-> IF Utf8Len(t[i]) = 1 THEN t[i] ELSE 0]

\* lines 684-689: the line logged for the bytes sent, less its time stamp
TxLine(app, bytes) ==
    [tag |-> IF ActiveChannel(app) = "module_channel" THEN "TX-MOD" ELSE "TX-HOST",
     bytes |-> bytes]

\* an application for which send_data forgets to empty the input line
SentKeepsInput(app, bytes) ==
    [app EXCEPT !.log[ActiveChannel(app)] = Append(@, TxLine(app, bytes))]

\* lines 690-691, after write_gatt_char has returned
Sent(app, bytes) ==
    [app EXCEPT !.log[ActiveChannel(app)] = Append(@, TxLine(app, bytes)),
                !.console_input = <<>>]

\* send_data (Enter on the console); write_gatt_char returns or raises
SendData ==
    /\ cp26.current_screen = "console"
    /\ Len(gatt.written) < MaxSends
    /\ LET text == Strip(cp26.console_input)
           tx_uuid == cp26[ActiveChannel(cp26)].tx_char
           hex == cp26.input_mode = "HEX"
           text_clean == HexClean(text)
           bytes == IF hex THEN FromHex(text_clean) ELSE Utf8(text)
           Status(m) == /\ cp26' = [cp26 EXCEPT !.status_message = m]
                        /\ UNCHANGED gatt
       IN IF cp26.client = Absent THEN Status("Not connected")
          ELSE IF text = <<>> THEN UNCHANGED <<cp26, gatt>>
          ELSE IF tx_uuid = "" THEN Status("TX not assigned")
          ELSE IF hex /\ ~IsHex(text_clean) THEN Status("Invalid hex format")
          ELSE IF hex /\ Len(text_clean) % 2 # 0
               THEN Status("Hex string must have even length")
          ELSE \/ /\ gatt' = [gatt EXCEPT
                                !.written = Append(@, [char |-> tx_uuid, bytes |-> bytes])]
                  /\ cp26' = Sent(cp26, bytes)
               \/ Status("Send error")
    /\ UNCHANGED <<sniff, blue, tasks>>

NextSend ==
    \/ ConsoleKeyChar
    \/ ConsoleKeyBackspace
    \/ ConsoleKeyF1
    \/ ConsoleKeyF5
    \/ SendData

SpecSend == InitSend /\ [][NextSend]_vars

\* the input line as send_data reads it holds something that is neither a
\* hex digit nor a separator, or an odd number of digits
Malformed(t) ==
    \/ \E i \in 1..Len(t) : t[i] \notin HexDigits \cup {32, 58, 45}
    \/ Cardinality({i \in 1..Len(t) : t[i] \in HexDigits}) % 2 = 1

\* C38: Enter on a HEX-mode line that is malformed writes nothing, logs
\* nothing and keeps the line; whenever Enter writes to the device, the line
\* is emptied and one TX entry is appended to the active channel's log, the
\* other log staying as it was; whenever Enter does not write (the write
\* raised, or the line was turned down), the line and both logs stay.
C38_SendDataAllOrNothing ==
    [][(SendData) =>
         LET wrote == gatt'.written # gatt.written
             kept == /\ cp26'.console_input = cp26.console_input
                     /\ cp26'.log = cp26.log
             active == ActiveChannel(cp26)
         IN /\ (cp26.input_mode = "HEX" /\ Malformed(cp26.console_input))
                  => ~wrote /\ kept
            /\ wrote => /\ Len(gatt'.written) = Len(gatt.written) + 1
                        /\ cp26'.console_input = <<>>
                        /\ Len(cp26'.log[active]) = Len(cp26.log[active]) + 1
                        /\ IsPrefix(cp26.log[active], cp26'.log[active])
                        /\ cp26'.log[active][Len(cp26'.log[active])].tag
                              \in {"TX-MOD", "TX-HOST"}
                        /\ cp26'.log[Other(active)] = cp26.log[Other(active)]
            /\ ~wrote => kept
      ]_vars

\* "4 4" was sent in HEX mode on the Host channel as the byte 0x44, and the
\* line "4 G" typed after it was turned down
C38_Witness ==
    /\ Len(cp26.log["host_channel"]) = 1
    /\ cp26.log["host_channel"][1] = [tag |-> "TX-HOST", bytes |-> <<68>>]
    /\ cp26.input_mode = "HEX"
    /\ cp26.console_input = <<52, 32, 71>>
    /\ cp26.status_message = "Invalid hex format"


\* ------------------------------------------------------------ both applications: screens and selections
\* run: the while loop has not been left
Looping == [running |-> TRUE]

\* the state after CP26TuiApp(stdscr) or BleTuiApp(stdscr), run entered
InitScreens ==
    /\ SniffStart
    /\ cp26 = Cp26Start @@ Looping
    /\ blue = BlueStart @@ Looping
    /\ gatt = GattStart
    /\ tasks = <<>>

\* handle_interview_keys: F4
InterviewKeyF4 ==
    /\ cp26.current_screen = "interview" /\ ~cp26.interview_action_menu
    /\ cp26' = [cp26 EXCEPT !.current_screen = "config"]
    /\ UNCHANGED <<sniff, blue, gatt, tasks>>

\* handle_interview_keys / handle_console_keys: F8
KeyF8 ==
    /\ \/ cp26.current_screen = "interview" /\ ~cp26.interview_action_menu
       \/ cp26.current_screen = "console"
    /\ cp26' = [InitSetupWizard(cp26) EXCEPT !.current_screen = "setup"]
    /\ UNCHANGED <<sniff, blue, gatt, tasks>>

\* handle_config_keys: F2 and F3
ConfigKeyF2F3 ==
    /\ cp26.current_screen = "config" /\ ~cp26.config_editing
    /\ \E screen \in {"interview", "console"} :
          cp26' = [cp26 EXCEPT !.current_screen = screen]
    /\ UNCHANGED <<sniff, blue, gatt, tasks>>

\* F10 where a handler looks at it: SystemExit leaves run's loop, and run
\* ends with disconnect (line 1519)
KeyF10 ==
    /\ \/ cp26.current_screen \in {"devices", "console"}
       \/ cp26.current_screen = "interview" /\ ~cp26.interview_action_menu
       \/ cp26.current_screen = "config" /\ ~cp26.config_editing
       \/ cp26.current_screen = "setup" /\ ~cp26.setup_editing /\ cp26.setup_step \in {0, 2}
    /\ cp26' = [Disconnected(cp26) EXCEPT !.running = FALSE]
    /\ gatt' = LinkDown(gatt)
    /\ UNCHANGED <<sniff, blue, tasks>>

\* blue_tui, `q` on any screen: SystemExit leaves run's loop, and run returns
BlueKeyQ ==
    /\ blue' = [blue EXCEPT !.running = FALSE]
    /\ UNCHANGED <<sniff, cp26, gatt, tasks>>

\* the keys of cp26_tui and of blue_tui that move between screens and lists
Cp26Keys ==
    \/ ScanDevices
    \/ DevicesKeyUp
    \/ DevicesKeyDown
    \/ ConnectSelectedDevice
    \/ KeyF9
    \/ KeyF10
    \/ InterviewKeyUp
    \/ InterviewKeyDown
    \/ InterviewEnter
    \/ MenuEsc
    \/ MenuKeyUp
    \/ MenuKeyDown
    \/ MenuEnter
    \/ InterviewKeyF3
    \/ InterviewKeyF4
    \/ KeyF8
    \/ ConfigKeyF2F3
    \/ ConfigKeyF8
    \/ SetupEsc
    \/ ConsoleKeyF2
    \/ ConsoleKeyF4

BlueKeys ==
    \/ BlueScanDevices
    \/ BlueDevicesKeyUp
    \/ BlueDevicesKeyDown
    \/ BlueConnectSelectedDevice
    \/ BlueCharsKeyD
    \/ BlueCharsKeyUp
    \/ BlueCharsKeyDown
    \/ BlueCharsEnter
    \/ BlueConsoleKeyB
    \/ BlueKeyQ

\* the peripherals in reach of the sessions followed here: the two of the
\* vendor's prefix
Nearby == {a \in Addresses : Listed(a)}

\* the applications are two programs: a session runs one of them until its
\* loop is left, and the other stays as constructed
OneSession ==
    \/ /\ cp26.running
       /\ blue = BlueStart @@ Looping
       /\ Cp26Keys
    \/ /\ blue.running
       /\ cp26 = Cp26Start @@ Looping
       /\ BlueKeys

NextScreens == OneSession /\ gatt'.advertised \subseteq Nearby

SpecScreens == InitScreens /\ [][NextScreens]_vars

\* i selects from list: 0 on an empty list, else one of its positions
InRange(i, list) == IF list = <<>> THEN i = 0 ELSE i \in 0..(Len(list) - 1)

\* C39: in both applications, after any sequence of keys, scans, connects
\* and disconnects, the selected device index is 0 on an empty device list
\* and else a position of the list, and the selected characteristic index
\* likewise of the characteristics list.
C39_SelectionsInRange ==
    /\ InRange(cp26.selected_device_idx, cp26.devices)
    /\ InRange(cp26.selected_char_idx, cp26.characteristics)
    /\ InRange(blue.selected_device_idx, blue.devices)
    /\ InRange(blue.selected_char_idx, blue.characteristics)

\* cp26_tui has built a client for each of two devices and is connected to
\* the second of its list, which shows one characteristic
C39_Witness ==
    /\ cp26.running
    /\ Len(cp26.devices) = 2 /\ cp26.selected_device_idx = 1
    /\ cp26.current_screen = "interview"
    /\ Len(cp26.characteristics) = 1 /\ cp26.selected_char_idx = 0
    /\ Cardinality(gatt.clients) = 2


\* a screen other than the device list is shown with a client and a
\* connected device, and blue_tui's console with a characteristic selected
ScreenHasClient ==
    /\ cp26.current_screen # "devices"
          => cp26.client # Absent /\ cp26.connected_device # Absent
    /\ blue.current_screen # "devices"
          => blue.client # Absent /\ blue.connected_device # Absent
    /\ blue.current_screen = "console" => blue.console_char # ""

\* the application has given up its client and shows the device list
BackOnDevices(app) ==
    /\ app.current_screen = "devices"
    /\ app.client = Absent
    /\ app.connected_device = Absent

\* C40 as stated: in every state reached by key events a screen other than
\* 'devices' implies a client and a connected device, blue_tui's console
\* implies a selected console characteristic, and a failed connect and every
\* disconnect leave the application on the devices screen with client and
\* connected_device None.  Fails: cp26_tui's run disconnects after F10 has
\* ended the loop, on whatever screen F10 was pressed.
C40_ScreenOnlyWithClient ==
    /\ [](ScreenHasClient)
    /\ [][/\ (ConnectSelectedDevice /\ cp26'.client = Absent) => BackOnDevices(cp26')
          /\ (BlueConnectSelectedDevice /\ blue'.client = Absent) => BackOnDevices(blue')
          /\ (cp26.client # Absent /\ cp26'.client = Absent) => BackOnDevices(cp26')
          /\ (blue.client # Absent /\ blue'.client = Absent) => BackOnDevices(blue')
       ]_vars

\* C40, amended: the same while run's loop handles keys, for a failed
\* connect and for every disconnect a key handler makes; the disconnect
\* that ends cp26_tui's run gives up client and connected device and leaves
\* the screen as it was.
C40_ScreenOnlyWithClientWhileLooping ==
    /\ [](cp26.running => ScreenHasClient)
    /\ [][/\ (ConnectSelectedDevice /\ cp26'.client = Absent) => BackOnDevices(cp26')
          /\ (BlueConnectSelectedDevice /\ blue'.client = Absent) => BackOnDevices(blue')
          /\ (cp26.client # Absent /\ cp26'.client = Absent /\ cp26'.running)
                => BackOnDevices(cp26')
          /\ (blue.client # Absent /\ blue'.client = Absent) => BackOnDevices(blue')
          /\ (cp26.running /\ ~cp26'.running)
                => /\ cp26'.current_screen = cp26.current_screen
                   /\ cp26'.client = Absent /\ cp26'.connected_device = Absent
       ]_vars

\* cp26_tui, connected for the second time in its session, shows the setup
\* wizard with its client in place
C40_Witness ==
    /\ cp26.running
    /\ cp26.current_screen = "setup"
    /\ cp26.client # Absent /\ cp26.connected_device # Absent
    /\ Cardinality(gatt.clients) = 2

=============================================================================
